---- MODULE Spec2Model ----
(***************************************************************************)
(* Model of the layer orchestrator of public/map.js (class IraqLeafletMap):*)
(* the per-dataset toggles, the five layer registries, the Leaflet map's   *)
(* set of attached layers, the data fetches in flight and the setTimeout   *)
(* chained batch loads that fill the marker cluster groups.                *)
(*                                                                         *)
(* JavaScript runs one handler at a time, so every handler (checkbox       *)
(* change, button click, fetch continuation, timer callback) is one atomic *)
(* action.  Handlers are written as operators from a state record to a     *)
(* state record, so that a bulk command can run several of them in one     *)
(* step, exactly as its forEach does.                                      *)
(***************************************************************************)
EXTENDS Integers, Sequences, FiniteSets, TLC

VARIABLES
  checked,          \* checkbox.checked of every dataset toggle
  loadedLayers,     \* this.loadedLayers   (keys)
  layerGroups,      \* this.layerGroups    layerName   -> layer id, 0 = no entry
  sharawaniLayers,  \* this.sharawaniLayers
  combinedLayers,   \* this.combinedLayers
  villagesLayers,   \* this.villagesLayers
  iqAirLayers,      \* this.iqAirLayers
  groups,           \* every Leaflet layer object created so far, by id
  onMap,            \* ids of the layers attached to this.map (map.hasLayer)
  fetching,         \* per dataset, the loadLayer/loadSharawaniLayer calls awaiting their fetch
  timers,           \* pending setTimeout(() => processBatch(endIndex)) callbacks
  loading,          \* the #loading element is displayed
  infoPanel,        \* content of #infoPanel: "" or "error" after a showError call
  fetchCount,       \* history: requests issued to /api/geojson/<d>, /api/sharawani/<d>
  loadCalls,        \* history: load calls for the dataset since its last hide call
  commands,         \* history: number of user commands handled
  combinedData,     \* data array of the /api/combined-data response
  villagesData,     \* number of points of the /api/villages-data response
  iqAirData,        \* number of points of the /api/iq-air-data response
  sharawaniData,    \* per Sharawani file, the geometry types of its features
  adminData,        \* per administrative file, its number of features
  geojsonFiles,     \* names listed by the /api/geojson-files response, in order
  iconCache,        \* this._iconCache: cacheKey -> icon descriptor
  divIcons,         \* history: per cacheKey, the L.divIcon objects created under it
  iconReturned,     \* history: per (factory, name, color), the descriptors returned
  popups,           \* per marker or feature layer, the number of bindPopup calls
  clicks,           \* history: per marker, the number of clicks received
  initPc,           \* init(): index in initOrder of the step awaiting its list fetch
  initLog,          \* history: the steps of init() that have run, with their outcome
  controls,         \* per category, what its container holds: "none", "buttons", "ready"
  containers,       \* ids of the control containers present in the document
  args,             \* the arguments of the method call under study
  result            \* <<>> before that call returns, then <<its outcome>>

vars == <<checked, loadedLayers, layerGroups, sharawaniLayers, combinedLayers,
          villagesLayers, iqAirLayers, groups, onMap, fetching, timers,
          loading, infoPanel, fetchCount, loadCalls, commands,
          combinedData, villagesData, iqAirData, sharawaniData, adminData,
          geojsonFiles, iconCache, divIcons, iconReturned, popups, clicks,
          initPc, initLog, controls, containers, args, result>>

callVars == <<args, result>>

pageVars == <<checked, loadedLayers, layerGroups, sharawaniLayers, combinedLayers,
              villagesLayers, iqAirLayers, groups, onMap, fetching, timers,
              loading, infoPanel, fetchCount, loadCalls, commands,
              iconCache, divIcons, iconReturned, popups, clicks,
              initPc, initLog, controls, containers>>

dataVars == <<combinedData, villagesData, iqAirData, sharawaniData, adminData,
              geojsonFiles>>

(***************************************************************************)
(* Bounds of the model.                                                    *)
(***************************************************************************)
MaxCommands == 3      \* user commands (checkbox changes, button clicks) per run
NumHera == 101        \* points of dataset HERA in the orchestrator runs
NumCompost == 2       \* points of dataset Compost
NumVillages == 2      \* points of the villages data
NumIqAir == 2         \* points of the IQ Air data
NumHealthcare == 51   \* Point features of Sharawani file Healthcare

Min(a, b) == IF a < b THEN a ELSE b

(***************************************************************************)
(* The datasets: two administrative files (one of level ADM1), a Sharawani *)
(* file of a designated clustering category and one that is not, two       *)
(* datasets of the combined data, the villages and the IQ Air devices.     *)
(* IqAirKey is the dataset "IQ Air" of loadIqAirData; it has its own name  *)
(* here because the model keys all toggles by one name space.              *)
(***************************************************************************)
Adm1 == "irq_admbnda_adm1_cso_20190603"
Adm2 == "irq_admbnda_adm2_cso_20190603"
IqAirKey == "IQ Air"

adminOrder == <<Adm1, Adm2>>
sharawaniOrder == <<"Healthcare", "Suburbs">>
combinedOrder == <<"HERA", "Compost">>
villagesOrder == <<"Villages">>
iqAirOrder == <<IqAirKey>>

Range(seq) == {seq[i] : i \in 1..Len(seq)}

AdminLayers == Range(adminOrder)
SharawaniFiles == Range(sharawaniOrder)
CombinedNames == Range(combinedOrder)
VillagesNames == Range(villagesOrder)
IqAirNames == Range(iqAirOrder)
Datasets == AdminLayers \cup SharawaniFiles \cup CombinedNames \cup VillagesNames \cup IqAirNames

Kinds == {"admin", "sharawani", "combined", "villages", "iqair"}

kindOf(d) ==
  IF d \in AdminLayers THEN "admin"
  ELSE IF d \in SharawaniFiles THEN "sharawani"
  ELSE IF d \in CombinedNames THEN "combined"
  ELSE IF d \in VillagesNames THEN "villages"
  ELSE "iqair"

\* Object.keys(datasetGroups): the datasets that occur in the combined data
combinedKeys ==
  SelectSeq(combinedOrder, LAMBDA d : \E i \in 1..Len(combinedData) : combinedData[i].dataset = d)

\* the toggles of category k in document order
orderOf(k) ==
  CASE k = "admin" -> geojsonFiles
    [] k = "sharawani" -> sharawaniOrder
    [] k = "combined" -> combinedKeys
    [] k = "villages" -> villagesOrder
    [] OTHER -> iqAirOrder

\* getAdminLevel of the server, for the two files of the model
adminLevel(d) == IF d = Adm1 THEN "ADM1" ELSE "ADM2"


(***************************************************************************)
(* Server data.  A point of the combined data carries the dataset it       *)
(* belongs to and its coordinates; its index in the data array stands for  *)
(* the identity of the point object.  The Compost points alternate with    *)
(* the first HERA points and each shares its coordinates with the HERA     *)
(* point before it.                                                        *)
(***************************************************************************)
MkCombined(nHera, nCompost) ==
  [i \in 1..(nHera + nCompost) |->
     [dataset   |-> IF i <= 2 * Min(nHera, nCompost)
                      THEN (IF i % 2 = 1 THEN "HERA" ELSE "Compost")
                      ELSE (IF nHera > nCompost THEN "HERA" ELSE "Compost"),
      latitude  |-> 30 + (((i + 1) \div 2) % 8),
      longitude |-> 40 + (((i + 1) \div 2) % 8)]]

\* a FeatureCollection of nPoints Point features followed by nPolygons Polygon features
MkFeatures(nPoints, nPolygons) ==
  [i \in 1..(nPoints + nPolygons) |-> IF i <= nPoints THEN "Point" ELSE "Polygon"]

Indices(seq) == [i \in 1..Len(seq) |-> i]

\* every point pushed to every group, whatever its dataset field
datasetGroupsAll(data, dataset) == Indices(data)

\* loadCombinedData: datasetGroups[point.dataset].push(point), as point indices
datasetGroups(data, dataset) ==
  SelectSeq(Indices(data), LAMBDA i : data[i].dataset = dataset)

\* geojson.features.filter((f) => f.geometry.type === "Point")
pointFeatures(features) ==
  SelectSeq(Indices(features), LAMBDA i : features[i] = "Point")

\* geojson.features.filter((f) => type === "Polygon" || type === "MultiPolygon")
polygonFeatures(features) ==
  SelectSeq(Indices(features),
            LAMBDA i : features[i] = "Polygon" \/ features[i] = "MultiPolygon")

\* shouldUseClustering(layerName, geojson); pointCount / total > 0.8 in integers
clusteringLayers == {"education", "Fuel Station", "Healthcare"}

\* at least 80% instead of more than 80%
shouldUseClusteringAtLeast(layerName, features) ==
  \/ layerName \in clusteringLayers
  \/ /\ Len(features) > 0
     /\ 10 * Len(pointFeatures(features)) >= 8 * Len(features)
     /\ Len(features) > 10

shouldUseClustering(layerName, features) ==
  \/ layerName \in clusteringLayers
  \/ /\ Len(features) > 0
     /\ 10 * Len(pointFeatures(features)) > 8 * Len(features)
     /\ Len(features) > 10

\* the dataPoints array a batch load of dataset d walks over
dataPointsOf(d) ==
  CASE kindOf(d) = "combined" -> datasetGroups(combinedData, d)
    [] kindOf(d) = "villages" -> [i \in 1..villagesData |-> i]
    [] kindOf(d) = "iqair" -> [i \in 1..iqAirData |-> i]
    [] kindOf(d) = "sharawani" -> pointFeatures(sharawaniData[d])
    [] OTHER -> <<>>

\* const batchSize of the four batch loads
batchSizeCombined == 100
batchSizeVillages == 200
batchSizeIqAir == 50
batchSizeSharawani == 50

batchSize(d) ==
  CASE kindOf(d) = "combined" -> batchSizeCombined
    [] kindOf(d) = "villages" -> batchSizeVillages
    [] kindOf(d) = "iqair" -> batchSizeIqAir
    [] OTHER -> batchSizeSharawani

(***************************************************************************)
(* The state record the handlers work on.                                  *)
(***************************************************************************)
Cur ==
  [checked |-> checked, loadedLayers |-> loadedLayers, layerGroups |-> layerGroups,
   sharawaniLayers |-> sharawaniLayers, combinedLayers |-> combinedLayers,
   villagesLayers |-> villagesLayers, iqAirLayers |-> iqAirLayers,
   groups |-> groups, onMap |-> onMap, fetching |-> fetching, timers |-> timers,
   loading |-> loading, infoPanel |-> infoPanel, fetchCount |-> fetchCount,
   loadCalls |-> loadCalls, commands |-> commands,
   iconCache |-> iconCache, divIcons |-> divIcons, iconReturned |-> iconReturned,
   popups |-> popups, clicks |-> clicks,
   initPc |-> initPc, initLog |-> initLog, controls |-> controls,
   containers |-> containers]

CurNext ==
  [checked |-> checked', loadedLayers |-> loadedLayers', layerGroups |-> layerGroups',
   sharawaniLayers |-> sharawaniLayers', combinedLayers |-> combinedLayers',
   villagesLayers |-> villagesLayers', iqAirLayers |-> iqAirLayers',
   groups |-> groups', onMap |-> onMap', fetching |-> fetching', timers |-> timers',
   loading |-> loading', infoPanel |-> infoPanel', fetchCount |-> fetchCount',
   loadCalls |-> loadCalls', commands |-> commands',
   iconCache |-> iconCache', divIcons |-> divIcons', iconReturned |-> iconReturned',
   popups |-> popups', clicks |-> clicks',
   initPc |-> initPc', initLog |-> initLog', controls |-> controls',
   containers |-> containers']

Becomes(s) ==
  /\ checked' = s.checked
  /\ loadedLayers' = s.loadedLayers
  /\ layerGroups' = s.layerGroups
  /\ sharawaniLayers' = s.sharawaniLayers
  /\ combinedLayers' = s.combinedLayers
  /\ villagesLayers' = s.villagesLayers
  /\ iqAirLayers' = s.iqAirLayers
  /\ groups' = s.groups
  /\ onMap' = s.onMap
  /\ fetching' = s.fetching
  /\ timers' = s.timers
  /\ loading' = s.loading
  /\ infoPanel' = s.infoPanel
  /\ fetchCount' = s.fetchCount
  /\ loadCalls' = s.loadCalls
  /\ commands' = s.commands
  /\ iconCache' = s.iconCache
  /\ divIcons' = s.divIcons
  /\ iconReturned' = s.iconReturned
  /\ popups' = s.popups
  /\ clicks' = s.clicks
  /\ initPc' = s.initPc
  /\ initLog' = s.initLog
  /\ controls' = s.controls
  /\ containers' = s.containers
  /\ UNCHANGED dataVars
  /\ UNCHANGED callVars

\* registry.get(d): the layer id recorded for dataset d, 0 when there is none
registryGet(s, d) ==
  CASE kindOf(d) = "admin" -> s.layerGroups[d]
    [] kindOf(d) = "sharawani" -> s.sharawaniLayers[d]
    [] kindOf(d) = "combined" -> s.combinedLayers[d]
    [] kindOf(d) = "villages" -> s.villagesLayers[d]
    [] OTHER -> s.iqAirLayers[d]

\* registry.set(d, g) on the registry of d's kind
registrySet(s, d, g) ==
  CASE kindOf(d) = "admin" -> [s EXCEPT !.layerGroups[d] = g]
    [] kindOf(d) = "sharawani" -> [s EXCEPT !.sharawaniLayers[d] = g]
    [] kindOf(d) = "combined" -> [s EXCEPT !.combinedLayers[d] = g]
    [] kindOf(d) = "villages" -> [s EXCEPT !.villagesLayers[d] = g]
    [] OTHER -> [s EXCEPT !.iqAirLayers[d] = g]

\* L.markerClusterGroup(...), L.layerGroup(), L.geoJSON(...): a new layer object
newLayer(s, d, type, layers) ==
  [s EXCEPT !.groups = Append(@, [ds |-> d, type |-> type, layers |-> layers,
                                  markers |-> <<>>, chunks |-> <<>>])]

\* attaching a layer detaches every other layer
addToAlone(s, g) == [s EXCEPT !.onMap = {g}]

\* layer.addTo(this.map)
addTo(s, g) == [s EXCEPT !.onMap = @ \cup {g}]

(***************************************************************************)
(* The four marker factories and the icon cache they share.  A cache key   *)
(* is the template string the factory builds; an icon descriptor is the    *)
(* object L.divIcon returns, identified by the key it was created under    *)
(* and its serial number among the descriptors created under that key.     *)
(***************************************************************************)
Factories == {"combined", "sharawani", "villages", "iqair"}

\* this.combinedColors, this.sharawaniColors, this.villagesColors, this.iqAirColors
colorOf(d) ==
  CASE d = "HERA" -> "#28a745"
    [] d = "Compost" -> "#ffc107"
    [] d = "Healthcare" -> "#dc3545"
    [] d = "Suburbs" -> "#FF8A65"
    [] d = "Villages" -> "#8e44ad"
    [] d = IqAirKey -> "#20c997"
    [] OTHER -> "#17a2b8"

\* const cacheKey = `...${datasetName}-${color}` of the four factories
cacheKeyOf(factory, datasetName, color) ==
  CASE factory = "combined" -> datasetName \o "-" \o color
    [] factory = "sharawani" -> "sharawani-" \o datasetName \o "-" \o color
    [] factory = "villages" -> "villages-" \o datasetName \o "-" \o color
    [] OTHER -> "iq-air-" \o datasetName \o "-" \o color

\* a cache that never reports a hit
cacheHasNever(cache, cacheKey) == FALSE

\* this._iconCache.has(cacheKey)
cacheHas(cache, cacheKey) == cacheKey \in DOMAIN cache

\* the descriptor a factory call returns in state s
iconOf(s, factory, datasetName, color) ==
  LET cacheKey == cacheKeyOf(factory, datasetName, color)
  IN IF cacheHas(s.iconCache, cacheKey)
       THEN s.iconCache[cacheKey]
       ELSE [factory |-> factory, alt |-> datasetName, background |-> color,
             key |-> cacheKey,
             serial |-> IF cacheKey \in DOMAIN s.divIcons
                          THEN s.divIcons[cacheKey] + 1 ELSE 1]

\* createOptimizedCombinedIcon, createOptimizedSharawaniIcon,
\* createOptimizedVillagesIcon, createOptimizedIqAirIcon: the state after the call
createOptimizedIcon(s, factory, datasetName, color) ==
  LET cacheKey == cacheKeyOf(factory, datasetName, color)
      icon == iconOf(s, factory, datasetName, color)
      call == <<factory, datasetName, color>>
      before == IF call \in DOMAIN s.iconReturned THEN s.iconReturned[call] ELSE {}
      s1 == [s EXCEPT !.iconReturned = (call :> (before \cup {icon})) @@ @]
  IN IF cacheHas(s.iconCache, cacheKey)
       THEN s1
       ELSE [s1 EXCEPT !.iconCache = (cacheKey :> icon) @@ @,
                       !.divIcons = (cacheKey :> icon.serial) @@ @]

\* the factory a batch load of dataset d calls for every marker
factoryOf(d) == kindOf(d)

\* the n factory calls of the markers of one chunk, one after the other: the
\* first half of the calls, then the second half on the state the first left
RECURSIVE createIcons(_, _, _)
createIcons(s, d, n) ==
  IF n = 0 THEN s
  ELSE IF n = 1 THEN createOptimizedIcon(s, factoryOf(d), d, colorOf(d))
  ELSE CHOOSE r \in {createIcons(half, d, (n + 1) \div 2) :
                       half \in {createIcons(s, d, n \div 2)}} : TRUE

(***************************************************************************)
(* Popups.  A marker or feature layer is named by the layer object that    *)
(* holds it and its position there.  onEachFeature and                     *)
(* onEachSharawaniFeature bind a popup to every feature layer when the     *)
(* GeoJSON layer is built; the click handler of a batch-created marker     *)
(* binds one when marker.getPopup() returns nothing.                       *)
(***************************************************************************)
\* layer.bindPopup(popupContent, ...)
bindPopup(s, marker) ==
  [s EXCEPT !.popups =
     (marker :> (IF marker \in DOMAIN @ THEN @[marker] + 1 ELSE 1)) @@ @]

\* onEachFeature: (feature, layer) => ... for the n features of layer object g
RECURSIVE onEachFeature(_, _, _)
onEachFeature(s, g, n) ==
  IF n = 0 THEN s ELSE bindPopup(onEachFeature(s, g, n - 1), <<g, n>>)

\* marker.getPopup()
getPopup(s, marker) == marker \in DOMAIN s.popups

\* the click handlers: marker.on("click", ...) of the batch loads,
\* onFeatureClick and onSharawaniFeatureClick of the GeoJSON layers
markerClick(s, g, i) ==
  LET marker == <<g, i>>
      s1 == [s EXCEPT !.clicks =
               (marker :> (IF marker \in DOMAIN @ THEN @[marker] + 1 ELSE 1)) @@ @]
  IN IF s.groups[g].type = "cluster"
       THEN (IF ~getPopup(s1, marker) THEN bindPopup(s1, marker) ELSE s1)
       ELSE [s1 EXCEPT !.infoPanel = "info"]

(***************************************************************************)
(* processBatch(startIndex) of the batch load that fills cluster group g.  *)
(* markers is the closure's markers array, layers the content of the       *)
(* cluster group, chunks the history of the chunk sizes added.             *)
(***************************************************************************)
\* a chunk one item short of the batch size
batchEndShort(startIndex, size, length) == Min(startIndex + size - 1, length)

\* Math.min(startIndex + batchSize, dataPoints.length)
batchEnd(startIndex, size, length) == Min(startIndex + size, length)

\* addLayers(markers): the whole array instead of the slice
sliceWhole(arr, startIndex, endIndex) == arr

\* markers.slice(startIndex, endIndex), indices from 0
slice(arr, startIndex, endIndex) ==
  SubSeq(arr, Min(startIndex, Len(arr)) + 1, Min(endIndex, Len(arr)))

\* a second timer that starts a chunk overlapping the next one
nextTimersTwice(g, endIndex, length) ==
  IF endIndex < length
    THEN {[grp |-> g, start |-> endIndex]} \cup
         (IF endIndex + 1 < length THEN {[grp |-> g, start |-> endIndex + 1]} ELSE {})
    ELSE {}

\* if (endIndex < dataPoints.length) setTimeout(() => processBatch(endIndex), ...)
nextTimers(g, endIndex, length) ==
  IF endIndex < length THEN {[grp |-> g, start |-> endIndex]} ELSE {}

\* the group recorded and attached after every chunk
processBatchEager(s, g, startIndex) ==
  LET d == s.groups[g].ds
      dataPoints == dataPointsOf(d)
      endIndex == batchEnd(startIndex, batchSize(d), Len(dataPoints))
      created == [k \in 1..(endIndex - startIndex) |-> dataPoints[startIndex + k]]
      markers == s.groups[g].markers \o created
      added == slice(markers, startIndex, endIndex)
      s0 == createIcons(s, d, endIndex - startIndex)
      s1 == [s0 EXCEPT !.groups[g].markers = markers,
                      !.groups[g].layers = @ \o added,
                      !.groups[g].chunks = Append(@, Len(added))]
      next == nextTimers(g, endIndex, Len(dataPoints))
  IN registrySet(addTo([s1 EXCEPT !.timers = @ \cup next], g), d, g)

processBatch(s, g, startIndex) ==
  CHOOSE r \in {
    LET endIndex == batchEnd(startIndex, batchSize(d), Len(dataPoints))
        created == SubSeq(dataPoints, startIndex + 1, endIndex)
        markers == s.groups[g].markers \o created
        added == slice(markers, startIndex, endIndex)
        s0 == createIcons(s, d, endIndex - startIndex)
        next == nextTimers(g, endIndex, Len(dataPoints))
    IN CHOOSE q \in {
         IF next # {}
           THEN [s1 EXCEPT !.timers = @ \cup next]
           ELSE registrySet(addTo(s1, g), d, g)
         : s1 \in {[s0 EXCEPT !.groups[g].markers = markers,
                              !.groups[g].layers = @ \o added,
                              !.groups[g].chunks = Append(@, Len(added))]} } : TRUE
    : d \in {s.groups[g].ds}, dataPoints \in {dataPointsOf(s.groups[g].ds)} } : TRUE

\* loadCombinedDataset, loadVillagesDataset, loadIqAirDataset
loadBatchDataset(s, d) ==
  LET s1 == newLayer(s, d, "cluster", <<>>)
  IN processBatch(s1, Len(s1.groups), 0)


(***************************************************************************)
(* Show and hide.  The four hide methods and the two show methods have the *)
(* same body over the registry of their kind.                              *)
(***************************************************************************)
\* showLayer, showSharawaniLayer
showLayer(s, d) ==
  LET layerGroup == registryGet(s, d)
  IN IF layerGroup # 0 /\ layerGroup \notin s.onMap THEN addTo(s, layerGroup) ELSE s

\* hideLayer, hideSharawaniLayer, hideCombinedDataset, hideVillagesDataset, hideIqAirDataset
hideLayer(s, d) ==
  LET layerGroup == registryGet(s, d)
  IN IF layerGroup # 0 /\ layerGroup \in s.onMap
       THEN [s EXCEPT !.onMap = @ \ {layerGroup}]
       ELSE s

\* showLoading(show)
showLoading(s, show) == [s EXCEPT !.loading = show]

\* an error report that also turns the toggle of the dataset off
showErrorUncheck(s, d) ==
  [s EXCEPT !.infoPanel = "error",
            !.checked = [e \in DOMAIN @ |-> IF e = d THEN FALSE ELSE @[e]]]

\* showError(`Failed to load ${layerName}. ...`)
showError(s, d) == [s EXCEPT !.infoPanel = "error"]

\* the fetch a load issues and then awaits
startFetch(s, d) ==
  [s EXCEPT !.fetching[d] = @ + 1, !.fetchCount[d] = @ + 1]

(***************************************************************************)
(* loadLayer: up to its await, and its continuation once the fetch has     *)
(* settled.  The constructor never assigns this.layerControl, so the       *)
(* addOverlay call at the end of the try block raises a TypeError, which   *)
(* the catch block reports through showError.                              *)
(***************************************************************************)
layerControlAssigned == FALSE

loadLayer(s, d) ==
  IF d \in s.loadedLayers
    THEN showLayer(s, d)
    ELSE startFetch(showLoading(s, TRUE), d)

loadLayerFetched(s, d, ok) ==
  LET s0 == [s EXCEPT !.fetching[d] = @ - 1]
      s1 == newLayer(s0, d, "layerGroup", [i \in 1..adminData[d] |-> i])
      layerGroup == Len(s1.groups)
      s2 == addTo([onEachFeature(s1, layerGroup, adminData[d])
                     EXCEPT !.loadedLayers = @ \cup {d}, !.layerGroups[d] = layerGroup],
                  layerGroup)
      s3 == IF layerControlAssigned THEN s2 ELSE showError(s2, d)
  IN showLoading(IF ok THEN s3 ELSE showError(s0, d), FALSE)

(***************************************************************************)
(* loadSharawaniLayer and the two loaders it awaits.  Both loaders return  *)
(* at once (the batch chain goes on in timers), so the finally block hides *)
(* the loading indicator in the same turn.                                 *)
(***************************************************************************)
loadSharawaniLayer(s, d) ==
  IF s.sharawaniLayers[d] # 0
    THEN showLayer(s, d)
    ELSE startFetch(showLoading(s, TRUE), d)

loadSharawaniWithClustering(s, d, features) ==
  LET s1 == newLayer(s, d, "cluster", <<>>)
      clusterGroup == Len(s1.groups)
      s2 == IF Len(pointFeatures(features)) > 0
              THEN processBatch(s1, clusterGroup, 0)
              ELSE s1
      s3 == newLayer(s2, d, "polygonLayer", polygonFeatures(features))
      polygonLayer == Len(s3.groups)
  IN IF Len(polygonFeatures(features)) > 0
       THEN addTo(onEachFeature(s3, polygonLayer, Len(polygonFeatures(features))),
                  polygonLayer)
       ELSE s2

loadSharawaniAsRegularLayer(s, d, features) ==
  LET s1 == newLayer(s, d, "layerGroup", Indices(features))
      layerGroup == Len(s1.groups)
  IN addTo([onEachFeature(s1, layerGroup, Len(features))
              EXCEPT !.sharawaniLayers[d] = layerGroup], layerGroup)

\* the response taken as good whatever its status
loadSharawaniFetchedAnyStatus(s, d, ok) ==
  LET s0 == [s EXCEPT !.fetching[d] = @ - 1]
      features == sharawaniData[d]
      s1 == IF shouldUseClustering(d, features)
              THEN loadSharawaniWithClustering(s0, d, features)
              ELSE loadSharawaniAsRegularLayer(s0, d, features)
  IN showLoading(s1, FALSE)

loadSharawaniFetched(s, d, ok) ==
  LET s0 == [s EXCEPT !.fetching[d] = @ - 1]
      features == sharawaniData[d]
      s1 == IF shouldUseClustering(d, features)
              THEN loadSharawaniWithClustering(s0, d, features)
              ELSE loadSharawaniAsRegularLayer(s0, d, features)
  IN showLoading(IF ok THEN s1 ELSE showError(s0, d), FALSE)

(***************************************************************************)
(* What a toggle runs when it turns on and when it turns off.              *)
(***************************************************************************)
load(s, d) ==
  LET s1 == [s EXCEPT !.loadCalls[d] = @ + 1]
  IN CASE kindOf(d) = "admin" -> loadLayer(s1, d)
       [] kindOf(d) = "sharawani" -> loadSharawaniLayer(s1, d)
       [] OTHER -> loadBatchDataset(s1, d)

hide(s, d) == hideLayer([s EXCEPT !.loadCalls[d] = 0], d)

\* checkbox.addEventListener("change", ...) after the click has flipped the box
checkboxChange(s, d) ==
  LET s1 == [s EXCEPT !.checked[d] = ~@]
  IN IF s1.checked[d] THEN load(s1, d) ELSE hide(s1, d)

\* a load for every toggle, checked or not
RECURSIVE loadAllNoCheck(_, _)
loadAllNoCheck(s, order) ==
  IF order = <<>> THEN s
  ELSE loadAllNoCheck(load([s EXCEPT !.checked[Head(order)] = TRUE], Head(order)), Tail(order))

\* loadAll...Btn click: forEach toggle, if (!checkbox.checked) { checked = true; load }
RECURSIVE loadAll(_, _)
loadAll(s, order) ==
  IF order = <<>> THEN s
  ELSE LET d == Head(order)
           s1 == IF ~s.checked[d] THEN load([s EXCEPT !.checked[d] = TRUE], d) ELSE s
       IN loadAll(s1, Tail(order))

\* clearAll...Btn click: forEach toggle, if (checkbox.checked) { checked = false; hide }
RECURSIVE clearAll(_, _)
clearAll(s, order) ==
  IF order = <<>> THEN s
  ELSE LET d == Head(order)
           s1 == IF s.checked[d] THEN hide([s EXCEPT !.checked[d] = FALSE], d) ELSE s
       IN clearAll(s1, Tail(order))

\* loadEverythingBtn click: the five categories in turn
loadEverything(s) ==
  loadAll(s, geojsonFiles \o sharawaniOrder \o combinedKeys \o villagesOrder \o iqAirOrder)

command(s) == [s EXCEPT !.commands = @ + 1]

(***************************************************************************)
(* init().  After showLoading(true) and initMap, init awaits the five list *)
(* loaders in turn and then runs setupGlobalControls.  Every loader has    *)
(* the same shape: await the fetch of its list and the parsing of the body *)
(* (response "rejected" when either rejects), look up its container, fill  *)
(* it, all inside a try block whose catch calls showError.  A body that    *)
(* parses but is not the expected list (the server's { error } object) is  *)
(* response "invalid".  A step is the continuation of the awaited fetch;   *)
(* it returns the page state and whether an error leaves the loader.       *)
(***************************************************************************)
initOrder == <<"admin", "sharawani", "combined", "villages", "iqair">>

\* the name of the loader of category k
loaderOf(k) ==
  CASE k = "admin" -> "loadAvailableLayers"
    [] k = "sharawani" -> "loadSharawaniLayers"
    [] k = "combined" -> "loadCombinedData"
    [] k = "villages" -> "loadVillagesData"
    [] OTHER -> "loadIqAirData"

\* document.getElementById(...) of the loader of category k
containerOf(k) ==
  CASE k = "admin" -> "layerControls"
    [] k = "sharawani" -> "sharawaniControls"
    [] k = "combined" -> "combinedControls"
    [] k = "villages" -> "villagesControls"
    [] OTHER -> "iqAirControls"

Containers == {containerOf(k) : k \in Kinds}

Responses == {"ok", "invalid", "rejected"}

\* a lookup that finds every container
containerFoundAlways(s, k) == TRUE

\* if (!layerControls) { throw ... }: the container lookup succeeded
containerFound(s, k) == containerOf(k) \in s.containers

\* every file checked and loaded at once, whatever its level
RECURSIVE createAdminTogglesAll(_, _)
createAdminTogglesAll(s, files) ==
  IF files = <<>> THEN s
  ELSE createAdminTogglesAll(load([s EXCEPT !.checked[Head(files)] = TRUE], Head(files)),
                             Tail(files))

\* geojsonFiles.forEach of loadAvailableLayers: the toggle of every file, an
\* ADM1 file checked and loaded at once
RECURSIVE createAdminToggles(_, _)
createAdminToggles(s, files) ==
  IF files = <<>> THEN s
  ELSE LET d == Head(files)
           s1 == IF adminLevel(d) = "ADM1"
                   THEN load([s EXCEPT !.checked[d] = TRUE], d)
                   ELSE s
       IN createAdminToggles(s1, Tail(files))

\* the try block of the loader of category k, from the settled fetch on
loaderBody(s, k, response) ==
  IF response = "rejected" THEN [s |-> s, error |-> TRUE]
  ELSE IF ~containerFound(s, k) THEN [s |-> s, error |-> TRUE]
  ELSE IF response = "invalid"
    THEN [s |-> IF k \in {"admin", "sharawani"}
                  THEN [s EXCEPT !.controls[k] = "buttons"]
                  ELSE s,
          error |-> TRUE]
  ELSE LET s1 == [s EXCEPT !.controls[k] = "ready"]
       IN [s |-> IF k = "admin" THEN createAdminToggles(s1, geojsonFiles) ELSE s1,
           error |-> FALSE]

\* a catch block that throws the error again
loaderCatchRethrow(r, k) == r

\* catch (error) { console.error(...); this.showError(...); }
loaderCatch(r, k) ==
  IF r.error THEN [s |-> showError(r.s, k), error |-> FALSE] ELSE r

\* one loader, with the outcome it leaves in the history
loader(s, k, response) ==
  LET body == loaderBody(s, k, response)
      r == loaderCatch(body, k)
  IN [r EXCEPT !.s.initLog =
        Append(@, [step |-> loaderOf(k), response |-> response,
                   outcome |-> IF body.error THEN "failed" ELSE "ok"])]

\* setupGlobalControls: the click listener of loadEverythingBtn
setupGlobalControls(s) ==
  [s EXCEPT !.controls["global"] = "ready",
            !.initLog = Append(@, [step |-> "setupGlobalControls", response |-> "none",
                                   outcome |-> "ok"])]

InitDone == Len(initOrder) + 1

\* init's catch and finally blocks
initCatch(s) == showError(s, "init")
initFinally(s) == [showLoading(s, FALSE) EXCEPT !.initPc = InitDone]

\* init resumes when the list fetch of the loader it awaits has settled
initResume(s, response) ==
  LET r == loader(s, initOrder[s.initPc], response)
  IN IF r.error THEN initFinally(initCatch(r.s))
     ELSE IF s.initPc = Len(initOrder) THEN initFinally(setupGlobalControls(r.s))
     ELSE [r.s EXCEPT !.initPc = @ + 1]

(***************************************************************************)
(* Actions.                                                                *)
(***************************************************************************)
CheckboxChange(d) ==
  /\ commands < MaxCommands
  /\ Becomes(checkboxChange(command(Cur), d))

LoadAllClick(k) ==
  /\ commands < MaxCommands
  /\ Becomes(loadAll(command(Cur), orderOf(k)))

ClearAllClick(k) ==
  /\ commands < MaxCommands
  /\ Becomes(clearAll(command(Cur), orderOf(k)))

LoadEverythingClick ==
  /\ commands < MaxCommands
  /\ Becomes(loadEverything(command(Cur)))

\* the fetch of a loadLayer / loadSharawaniLayer call settles
FetchSettled(d, ok) ==
  /\ fetching[d] > 0
  /\ Becomes(IF kindOf(d) = "admin"
               THEN loadLayerFetched(Cur, d, ok)
               ELSE loadSharawaniFetched(Cur, d, ok))

\* the callback is dropped without running processBatch
TimerFiredLost(t) ==
  /\ t \in timers
  /\ Becomes([Cur EXCEPT !.timers = @ \ {t}])

\* a pending timer fires and runs processBatch(endIndex)
TimerFired(t) ==
  /\ t \in timers
  /\ \E s \in {processBatch([Cur EXCEPT !.timers = @ \ {t}], t.grp, t.start)} : Becomes(s)

(***************************************************************************)
(* Initial state: init() has built the controls of the five categories;    *)
(* the ADM1 toggle is checked and its loadLayer call awaits its fetch; the *)
(* finally block of init has hidden the loading indicator.                 *)
(***************************************************************************)
InitControls ==
  /\ checked = [d \in Datasets |-> d \in Range(geojsonFiles) /\ adminLevel(d) = "ADM1"]
  /\ loadedLayers = {}
  /\ layerGroups = [d \in AdminLayers |-> 0]
  /\ sharawaniLayers = [d \in SharawaniFiles |-> 0]
  /\ combinedLayers = [d \in CombinedNames |-> 0]
  /\ villagesLayers = [d \in VillagesNames |-> 0]
  /\ iqAirLayers = [d \in IqAirNames |-> 0]
  /\ groups = <<>>
  /\ onMap = {}
  /\ fetching = [d \in Datasets |-> IF checked[d] THEN 1 ELSE 0]
  /\ timers = {}
  /\ loading = FALSE
  /\ infoPanel = ""
  /\ fetchCount = [d \in Datasets |-> IF checked[d] THEN 1 ELSE 0]
  /\ loadCalls = [d \in Datasets |-> IF checked[d] THEN 1 ELSE 0]
  /\ commands = 0
  /\ iconCache = <<>>
  /\ divIcons = <<>>
  /\ iconReturned = <<>>
  /\ popups = <<>>
  /\ clicks = <<>>
  /\ initPc = InitDone
  /\ initLog = [i \in 1..(Len(initOrder) + 1) |->
                  [step |-> IF i <= Len(initOrder) THEN loaderOf(initOrder[i])
                                                   ELSE "setupGlobalControls",
                   response |-> IF i <= Len(initOrder) THEN "ok" ELSE "none",
                   outcome |-> "ok"]]
  /\ controls = [k \in Kinds \cup {"global"} |-> "ready"]
  /\ containers = Containers

\* no method call is under study
NoCall ==
  /\ args = <<>>
  /\ result = <<>>

Init ==
  /\ combinedData = MkCombined(NumHera, NumCompost)
  /\ villagesData = NumVillages
  /\ iqAirData = NumIqAir
  /\ sharawaniData = [d \in SharawaniFiles |->
                        IF d = "Healthcare" THEN MkFeatures(NumHealthcare, 1)
                                            ELSE MkFeatures(0, 2)]
  /\ adminData = [d \in AdminLayers |-> 1]
  /\ geojsonFiles = <<Adm1>>
  /\ InitControls
  /\ NoCall

\* the datasets that have a toggle
Toggles == UNION {Range(orderOf(k)) : k \in Kinds}

Next ==
  \/ \E d \in Toggles : CheckboxChange(d)
  \/ \E k \in Kinds : LoadAllClick(k)
  \/ \E k \in Kinds : ClearAllClick(k)
  \/ LoadEverythingClick
  \/ \E d \in Datasets, ok \in BOOLEAN : FetchSettled(d, ok)
  \/ \E t \in timers : TimerFired(t)

Spec == Init /\ [][Next]_vars

(***************************************************************************)
(* The load methods called for a dataset that is already turned on, with   *)
(* no hide since its last load call.  No control of the page makes this    *)
(* call; it is the second "set visible" of the orchestrator's contract.    *)
(***************************************************************************)
LoadAgain(d) ==
  /\ commands < MaxCommands
  /\ checked[d]
  /\ loadCalls[d] >= 1
  /\ Becomes(load(command(Cur), d))

NextCalls ==
  \/ Next
  \/ \E d \in Toggles : LoadAgain(d)

SpecCalls == Init /\ [][NextCalls]_vars

TypeOK ==
  /\ checked \in [Datasets -> BOOLEAN]
  /\ onMap \subseteq 1..Len(groups)
  /\ commands \in 0..MaxCommands


(***************************************************************************)
(* The batch loads on their own: the data sizes are drawn from 0..MaxPoints*)
(* and the documented size of dataset HERA, and one toggle of a batch      *)
(* loaded dataset is turned on.                                            *)
(***************************************************************************)
MaxPoints == 250
HeraPoints == 2458

BatchDatasets == {"HERA", "Compost", "Villages", IqAirKey, "Healthcare"}

InitBatch ==
  /\ \E n \in (0..MaxPoints) \cup {HeraPoints} :
       /\ combinedData = MkCombined(n, 2)
       /\ villagesData = n
       /\ iqAirData = n
       /\ sharawaniData = [d \in SharawaniFiles |->
                             IF d = "Healthcare" THEN MkFeatures(n, 1)
                                                 ELSE MkFeatures(0, 2)]
  /\ adminData = [d \in AdminLayers |-> 1]
  /\ geojsonFiles = <<Adm1>>
  /\ InitControls
  /\ NoCall

BatchStart(d) ==
  /\ commands = 0
  /\ CheckboxChange(d)

NextBatch ==
  \/ \E d \in BatchDatasets \cap Toggles : BatchStart(d)
  \/ \E d \in Datasets, ok \in BOOLEAN : FetchSettled(d, ok)
  \/ \E t \in timers : TimerFired(t)

SpecBatch == InitBatch /\ [][NextBatch]_vars

(***************************************************************************)
(* Vocabulary of the properties.                                           *)
(***************************************************************************)
GroupIds == 1..Len(groups)
ClusterGroups == {g \in GroupIds : groups[g].type = "cluster"}

\* the batch load that fills g has a chunk still to come
Pending(g) == \E t \in timers : t.grp = g

\* the batch load that fills g has processed its last chunk
Finished(g) == groups[g].chunks # <<>> /\ ~Pending(g)

PointsOf(g) == dataPointsOf(groups[g].ds)
SizeOf(g) == batchSize(groups[g].ds)

\* C1: once a batch load has processed its last chunk, its cluster group holds
\* exactly the N input points, each once (here: the points in input order), for
\* every N from 0 to MaxPoints and every batch size 100, 200, 50, 50.
C1_BatchComplete ==
  \A g \in ClusterGroups :
    Finished(g) => /\ Len(groups[g].layers) = Len(PointsOf(g))
                   /\ groups[g].layers = PointsOf(g)

\* a finished load whose N is larger than B and not a multiple of it
C1_Witness ==
  \E g \in ClusterGroups :
    /\ Finished(g)
    /\ Len(groups[g].chunks) >= 2
    /\ Len(PointsOf(g)) % SizeOf(g) # 0
    /\ Len(groups[g].layers) = Len(PointsOf(g))


\* C8: within one batch load the chunks run one after another in index order:
\* between handlers every marker created so far has been added to the cluster
\* group, the group holds a prefix of the input in input order, at most one
\* timer of the load is pending, and that timer starts right after the prefix.
C8_SequentialChunks ==
  \A g \in ClusterGroups :
    /\ groups[g].markers = groups[g].layers
    /\ Len(groups[g].layers) <= Len(PointsOf(g))
    /\ groups[g].layers = SubSeq(PointsOf(g), 1, Len(groups[g].layers))
    /\ Cardinality({t \in timers : t.grp = g}) <= 1
    /\ \A t \in timers : t.grp = g => t.start = Len(groups[g].layers)

\* a load between its second and its third chunk
C8_Witness ==
  \E g \in ClusterGroups :
    /\ Pending(g)
    /\ Len(groups[g].chunks) = 2
    /\ Len(groups[g].layers) = 2 * SizeOf(g)

\* C9: a batch load of N points with batch size B adds ceil(N/B) chunks, all of
\* size B except possibly the last (N = 0 is one empty pass); HERA with 2458
\* points ends with 24 chunks of 100 and one of 58 and 2458 markers; and a group
\* whose load is suspended before a later chunk is not attached to the map.
CeilDiv(n, b) == (n + b - 1) \div b

C9_ChunkCount ==
  \A g \in ClusterGroups :
    LET N == Len(PointsOf(g))
        B == SizeOf(g)
        chunks == groups[g].chunks
    IN /\ \A k \in 1..(Len(chunks) - 1) : chunks[k] = B
       /\ Pending(g) => g \notin onMap /\ (chunks # <<>> => chunks[Len(chunks)] = B)
       /\ Finished(g) /\ N > 0 =>
            /\ Len(chunks) = CeilDiv(N, B)
            /\ chunks[Len(chunks)] = N - B * (Len(chunks) - 1)
            /\ chunks[Len(chunks)] \in 1..B
       /\ Finished(g) /\ N = 0 => chunks = <<0>>
       /\ Finished(g) /\ groups[g].ds = "HERA" /\ N = HeraPoints =>
            /\ Len(chunks) = 25
            /\ \A k \in 1..24 : chunks[k] = 100
            /\ chunks[25] = 58
            /\ Len(groups[g].layers) = 2458

\* the finished load of HERA with its 2458 points
C9_Witness ==
  \E g \in ClusterGroups :
    /\ groups[g].ds = "HERA"
    /\ Len(PointsOf(g)) = HeraPoints
    /\ Finished(g)
    /\ g \in onMap


\* the layers of dataset d attached to the map
Attached(d) == {g \in onMap : groups[g].ds = d}

\* C2: two load calls for a dataset with no hide in between leave what one call
\* leaves: at most one fetch of the dataset in flight, at most one group of it
\* being filled, and at most one group and one polygon layer of it on the map.
C2_ShowTwiceSameAsOnce ==
  \A d \in Datasets :
    loadCalls[d] >= 2 =>
      /\ fetching[d] <= 1
      /\ Cardinality({g \in ClusterGroups : groups[g].ds = d /\ Pending(g)}) <= 1
      /\ Cardinality({g \in Attached(d) : groups[g].type # "polygonLayer"}) <= 1
      /\ Cardinality({g \in Attached(d) : groups[g].type = "polygonLayer"}) <= 1

\* C3: turning on a dataset whose registry holds its group only re-attaches that
\* group: no fetch is issued, no layer of the dataset is created or changed,
\* and the registry entry stays.
C3_ReattachOnly ==
  [][\A d \in Datasets :
       (~checked[d] /\ checked'[d] /\ registryGet(Cur, d) # 0) =>
         /\ fetchCount'[d] = fetchCount[d]
         /\ \A g \in 1..Len(groups') :
              groups'[g].ds = d => g <= Len(groups) /\ groups'[g] = groups[g]
         /\ registryGet(CurNext, d) = registryGet(Cur, d)
         /\ registryGet(Cur, d) \in onMap']_vars

\* C4: every dataset has at most one layer attached to the map, and an attached
\* layer is the one its registry records.
C4_OneAttachedGroup ==
  \A d \in Datasets :
    /\ Cardinality(Attached(d)) <= 1
    /\ \A g \in Attached(d) : registryGet(Cur, d) = g

\* C5: a hide of a populated, visible dataset leaves no layer of the dataset on
\* the map and keeps the registry entry and its group as they were.
C5_HideDetachesAll ==
  [][\A d \in Datasets :
       (checked[d] /\ ~checked'[d] /\ registryGet(Cur, d) # 0
          /\ registryGet(Cur, d) \in onMap) =>
         /\ \A g \in onMap' : groups'[g].ds # d
         /\ registryGet(CurNext, d) = registryGet(Cur, d)
         /\ groups'[registryGet(Cur, d)] = groups[registryGet(Cur, d)]]_vars

\* C6: no step attaches a layer of a dataset whose toggle is off: a load that
\* completes after its dataset was turned off leaves the group off the map.
C6_NoAttachWhileOff ==
  [][\A d \in Datasets :
       (~checked[d] /\ ~checked'[d]) =>
         \A g \in onMap' \ onMap : groups'[g].ds # d]_vars

\* C7: every marker of a combined dataset's group was built from a point whose
\* dataset field names that dataset, no point has two markers in a group, and a
\* finished group holds every point of its dataset: each point of the combined
\* data is in the groups of exactly one dataset, the one its dataset field names.
C7_NoMixedGroups ==
  \A g \in GroupIds :
    kindOf(groups[g].ds) = "combined" =>
      LET layers == groups[g].layers
          own == {i \in 1..Len(combinedData) : combinedData[i].dataset = groups[g].ds}
      IN /\ \A i \in 1..Len(layers) : layers[i] \in own
         /\ \A i \in 1..(Len(layers) - 1) : layers[i] < layers[i + 1]
         /\ Finished(g) => Len(layers) = Cardinality(own)

\* HERA is still being filled while Compost, with a point at the coordinates of
\* a HERA marker, has been loaded
C7_Witness ==
  \E g \in ClusterGroups, h \in ClusterGroups :
    /\ groups[g].ds = "HERA" /\ Pending(g)
    /\ groups[h].ds = "Compost" /\ h \in onMap
    /\ \E i \in 1..Len(groups[g].layers), j \in 1..Len(groups[h].layers) :
         /\ combinedData[groups[g].layers[i]].latitude = combinedData[groups[h].layers[j]].latitude
         /\ combinedData[groups[g].layers[i]].longitude = combinedData[groups[h].layers[j]].longitude

\* a step leaves everything of dataset d but its toggle as it was
Untouched(d) ==
  /\ fetchCount'[d] = fetchCount[d]
  /\ fetching'[d] = fetching[d]
  /\ loadCalls'[d] = loadCalls[d]
  /\ registryGet(CurNext, d) = registryGet(Cur, d)
  /\ \A g \in 1..Len(groups') :
       groups'[g].ds = d =>
         /\ g <= Len(groups)
         /\ groups'[g] = groups[g]
         /\ (g \in onMap') = (g \in onMap)

LoadAllEffect(order) ==
  /\ \A d \in Range(order) : checked[d] => checked'[d] /\ Untouched(d)
  /\ \A d \in Range(order) : ~checked[d] => checked'[d] /\ loadCalls'[d] = 1
  /\ \A d \in Datasets \ Range(order) : checked'[d] = checked[d] /\ Untouched(d)
  /\ loadAll(CurNext, order) = CurNext

ClearAllEffect(order) ==
  /\ \A d \in Range(order) : ~checked[d] => ~checked'[d] /\ Untouched(d)
  /\ \A d \in Range(order) :
       checked[d] => /\ ~checked'[d]
                     /\ registryGet(Cur, d) \notin onMap'
                     /\ onMap' \subseteq onMap
  /\ groups' = groups
  /\ \A d \in Datasets \ Range(order) : checked'[d] = checked[d] /\ Untouched(d)
  /\ clearAll(CurNext, order) = CurNext

\* C10: a load-all click (of a category, or load everything) loads exactly the
\* unchecked datasets of its category and leaves the checked ones and all other
\* datasets untouched; a clear-all click hides exactly the checked ones; and a
\* second click of the same button right after changes nothing.
C10_BulkIdempotent ==
  [][/\ \A k \in Kinds : LoadAllClick(k) => LoadAllEffect(orderOf(k))
     /\ LoadEverythingClick =>
          LoadAllEffect(geojsonFiles \o sharawaniOrder \o combinedKeys \o
                        villagesOrder \o iqAirOrder)
     /\ \A k \in Kinds : ClearAllClick(k) => ClearAllEffect(orderOf(k))]_vars

\* load everything clicked first: every toggle is checked, and the ADM1 layer,
\* checked before the click, still has its one load call and one fetch
C10_Witness ==
  /\ commands = 1
  /\ \A d \in Toggles : checked[d]
  /\ loadCalls[Adm1] = 1
  /\ fetchCount[Adm1] = 1

(***************************************************************************)
(* The marker factories called directly, with dataset names and colors     *)
(* drawn from small sets, up to MaxIconKeys different calls.               *)
(***************************************************************************)
MaxIconKeys == 3

IconNames == {"HERA", "Villages", "villages-Villages"}
IconColors == {"#8e44ad", "#28a745"}

IconCall(factory, datasetName, color) ==
  /\ \/ <<factory, datasetName, color>> \in DOMAIN iconReturned
     \/ Cardinality(DOMAIN iconReturned) < MaxIconKeys
  /\ Becomes(createOptimizedIcon(Cur, factory, datasetName, color))

NextIcons ==
  \E factory \in Factories, datasetName \in IconNames, color \in IconColors :
    IconCall(factory, datasetName, color)

SpecIcons == Init /\ [][NextIcons]_vars

C12_CacheInsertOnly ==
  [][ /\ \A k \in DOMAIN iconCache :
           k \in DOMAIN iconCache' /\ iconCache'[k] = iconCache[k]
      /\ \A k \in DOMAIN divIcons' : divIcons'[k] = 1
      /\ Cardinality(DOMAIN iconCache') <= Cardinality(DOMAIN iconReturned') ]_vars

\* two batch loads of different datasets have chunks pending at the same time,
\* each with its descriptor in the cache, and a later chunk has already run
C12_Witness ==
  /\ Cardinality(DOMAIN iconCache) >= 2
  /\ \E t1, t2 \in timers : groups[t1.grp].ds # groups[t2.grp].ds
  /\ \E g \in 1..Len(groups) : Len(groups[g].chunks) >= 2

(***************************************************************************)
(* Clicks on markers and feature layers.  The data is small (every batch   *)
(* load finishes in its first chunk, so no timer is ever pending); a click *)
(* counts as a user command.                                               *)
(***************************************************************************)
NumPopupPoints == 2

PopupDatasets == {"HERA", "Healthcare", "Suburbs"}

InitPopup ==
  /\ combinedData = MkCombined(NumPopupPoints, 1)
  /\ villagesData = 1
  /\ iqAirData = 1
  /\ sharawaniData = [d \in SharawaniFiles |->
                        IF d = "Healthcare" THEN MkFeatures(NumPopupPoints, 1)
                                            ELSE MkFeatures(1, 1)]
  /\ adminData = [d \in AdminLayers |-> 1]
  /\ geojsonFiles = <<Adm1>>
  /\ InitControls
  /\ NoCall

\* the user clicks the i-th marker or feature of the attached layer object g
MarkerClick(g, i) ==
  /\ commands < MaxCommands
  /\ g \in onMap
  /\ i \in 1..Len(groups[g].layers)
  /\ Becomes(markerClick(command(Cur), g, i))

NextPopup ==
  \/ \E d \in PopupDatasets : CheckboxChange(d)
  \/ \E d \in Datasets, ok \in BOOLEAN : FetchSettled(d, ok)
  \/ \E g \in 1..Len(groups), i \in 1..NumPopupPoints + 1 : MarkerClick(g, i)

SpecPopup == InitPopup /\ [][NextPopup]_vars

\* the i-th layer of layer object g is a marker made from a Point feature
IsPointMarker(g, i) ==
  /\ i \in 1..Len(groups[g].layers)
  /\ \/ groups[g].type = "cluster"
     \/ /\ groups[g].type = "layerGroup"
        /\ kindOf(groups[g].ds) = "sharawani"
        /\ sharawaniData[groups[g].ds][groups[g].layers[i]] = "Point"

PopupsBound(g, i) == IF <<g, i>> \in DOMAIN popups THEN popups[<<g, i>>] ELSE 0
Clicked(g, i) == <<g, i>> \in DOMAIN clicks

\* C13: every marker made from a Point feature, clustered or not, has had a
\* popup bound exactly once if it was ever clicked and never if it was not.
C13_PopupOnFirstClick ==
  \A g \in 1..Len(groups) : \A i \in 1..Len(groups[g].layers) :
    IsPointMarker(g, i) =>
      PopupsBound(g, i) = (IF Clicked(g, i) THEN 1 ELSE 0)

\* the same for the markers of the cluster groups only
ClusteredPopupOnFirstClick ==
  \A g \in 1..Len(groups) : \A i \in 1..Len(groups[g].layers) :
    groups[g].type = "cluster" =>
      PopupsBound(g, i) = (IF Clicked(g, i) THEN 1 ELSE 0)

(***************************************************************************)
(* shouldUseClustering called on its own, for a layer name and a feature   *)
(* collection of nPoints Point features and nPolygons Polygon features.    *)
(***************************************************************************)
MaxFeatures == 12

LayerNames == {"education", "Fuel Station", "Healthcare", "Suburbs", "Cemetary"}

\* everything of the page in its initial state, the data as in Init
Idle ==
  /\ combinedData = MkCombined(NumHera, NumCompost)
  /\ villagesData = NumVillages
  /\ iqAirData = NumIqAir
  /\ sharawaniData = [d \in SharawaniFiles |->
                        IF d = "Healthcare" THEN MkFeatures(NumHealthcare, 1)
                                            ELSE MkFeatures(0, 2)]
  /\ adminData = [d \in AdminLayers |-> 1]
  /\ geojsonFiles = <<Adm1>>
  /\ InitControls

InitClustering ==
  /\ Idle
  /\ args \in [layerName : LayerNames, nPoints : 0..MaxFeatures, nPolygons : 0..MaxFeatures]
  /\ result = <<>>

CallShouldUseClustering ==
  /\ result = <<>>
  /\ result' = <<shouldUseClustering(args.layerName,
                                     MkFeatures(args.nPoints, args.nPolygons))>>
  /\ UNCHANGED <<args, pageVars, dataVars>>

NextClustering == CallShouldUseClustering

SpecClustering == InitClustering /\ [][NextClustering]_vars

\* C14: the call returns true exactly when the layer is education, Fuel
\* Station or Healthcare, or more than 80% of the features are Points and
\* there are more than 10 features; so it returns false for another layer
\* at exactly 80%, at exactly 10 features and for no features at all.
C14_ClusteringRule ==
  result # <<>> =>
    LET total == args.nPoints + args.nPolygons
        designated == args.layerName \in {"education", "Fuel Station", "Healthcare"}
    IN /\ result[1] = (designated \/ (5 * args.nPoints > 4 * total /\ total > 10))
       /\ (~designated /\ 5 * args.nPoints = 4 * total) => result[1] = FALSE
       /\ (~designated /\ total = 10) => result[1] = FALSE
       /\ (~designated /\ total = 0) => result[1] = FALSE

\* a refusal at exactly 80% of more than 10 features
C14_Witness ==
  /\ result = <<FALSE>>
  /\ args.layerName = "Suburbs"
  /\ args.nPoints = 12 /\ args.nPolygons = 3

(***************************************************************************)
(* The coordinate normalizer.  A number is an exact rational <<n, d>> with *)
(* d > 0.  A coordinate pair is a record of its two numbers, the transform *)
(* it last went through and how often it was transformed; after the exact  *)
(* transform, x and y are the arguments of the proj4 call whose result the *)
(* pair holds (the value proj4 computes is not interpreted).               *)
(* geometry.coordinates is a sequence: of one pair for a Point (none for   *)
(* an empty array), of rings of pairs for a Polygon, of polygons for a     *)
(* MultiPolygon.  hasGeometry, hasCoordinates and hasProperties tell       *)
(* whether feature.geometry, geometry.coordinates and feature.properties   *)
(* are there at all.                                                       *)
(***************************************************************************)
Num(k) == <<k, 1>>
Gt(a, k) == a[1] > k * a[2]
Ge(a, k) == a[1] >= k * a[2]
Le(a, k) == a[1] <= k * a[2]

Pair(x, y) == [x |-> Num(x), y |-> Num(y), via |-> "none", times |-> 0]

Feature(type, coordinates) ==
  [hasGeometry |-> TRUE, type |-> type, hasCoordinates |-> TRUE,
   coordinates |-> coordinates, hasProperties |-> TRUE]

\* the bounds taken as part of the projected side
isProjectedOrEqual(c) == Ge(c.x, 180) \/ Ge(c.y, 90)

\* return x > 180 || y > 90
isProjected(c) == Gt(c.x, 180) \/ Gt(c.y, 90)

Threw == [thrown |-> TRUE, value |-> FALSE]
Returned(v) == [thrown |-> FALSE, value |-> v]

\* needsCoordinateTransformation(feature): the value returned, or the TypeError
\* of reading a property of undefined / destructuring undefined
needsCoordinateTransformation(feature) ==
  LET c == feature.coordinates
  IN IF ~feature.hasGeometry THEN Threw
     ELSE CASE feature.type = "Point" ->
                 IF ~feature.hasCoordinates THEN Threw
                 ELSE IF c = <<>> THEN Returned(FALSE)
                 ELSE Returned(isProjected(c[1]))
            [] feature.type = "MultiPolygon" ->
                 IF ~feature.hasCoordinates THEN Threw
                 ELSE IF c = <<>> THEN Threw
                 ELSE IF c[1] = <<>> THEN Threw
                 ELSE IF c[1][1] = <<>> THEN Threw
                 ELSE Returned(isProjected(c[1][1][1]))
            [] feature.type = "Polygon" ->
                 IF ~feature.hasCoordinates THEN Threw
                 ELSE IF c = <<>> THEN Threw
                 ELSE IF c[1] = <<>> THEN Threw
                 ELSE Returned(isProjected(c[1][1]))
            [] OTHER -> Returned(FALSE)

\* the approximation without the central meridian
approximatePairNoMeridian(c) ==
  [x |-> <<c.x[1] - 500000 * c.x[2], 111320 * c.x[2]>>,
   y |-> <<c.y[1], 110540 * c.y[2]>>,
   via |-> "approx", times |-> c.times + 1]

\* lon = (x - 500000) / 111320 + 45; lat = y / 110540
approximatePair(c) ==
  [x |-> <<c.x[1] - 500000 * c.x[2] + 45 * 111320 * c.x[2], 111320 * c.x[2]>>,
   y |-> <<c.y[1], 110540 * c.y[2]>>,
   via |-> "approx", times |-> c.times + 1]

\* [lon, lat] = proj4("EPSG:32638", "EPSG:4326", [x, y])
proj4Pair(c) == [x |-> c.x, y |-> c.y, via |-> "proj4", times |-> c.times + 1]

transformPair(c, exact) == IF exact THEN proj4Pair(c) ELSE approximatePair(c)

\* number of pairs in the first k rings
RECURSIVE pairsBefore(_, _)
pairsBefore(rings, k) ==
  IF k = 0 THEN 0 ELSE pairsBefore(rings, k - 1) + Len(rings[k])

\* number of pairs in the first k polygons
RECURSIVE pairsBeforePolygon(_, _)
pairsBeforePolygon(polygons, k) ==
  IF k = 0 THEN 0
  ELSE pairsBeforePolygon(polygons, k - 1) + pairsBefore(polygons[k], Len(polygons[k]))

\* the pair reached as the pos-th of the traversal: transformed unless the
\* traversal was left at or before it by the throwAt-th proj4 call throwing
visit(c, pos, exact, throwAt) ==
  IF throwAt = 0 \/ pos < throwAt THEN transformPair(c, exact) ELSE c

\* only the first ring is walked
forEachRingFirstOnly(rings, base, exact, throwAt) ==
  [r \in 1..Len(rings) |->
     [i \in 1..Len(rings[r]) |->
        IF r = 1 THEN visit(rings[r][i], base + i, exact, throwAt) ELSE rings[r][i]]]

\* polygon.forEach((ring) => ring.forEach((coord) => ...)), base pairs visited before
forEachRing(rings, base, exact, throwAt) ==
  [r \in 1..Len(rings) |->
     [i \in 1..Len(rings[r]) |->
        visit(rings[r][i], base + pairsBefore(rings, r - 1) + i, exact, throwAt)]]

\* the three branches of approximateTransform and of transformFeatureGeometry
transformGeometry(feature, exact, throwAt) ==
  LET c == feature.coordinates
  IN CASE feature.type = "Point" ->
            [feature EXCEPT !.coordinates = <<visit(c[1], 1, exact, throwAt)>>]
       [] feature.type = "MultiPolygon" ->
            [feature EXCEPT !.coordinates =
               [k \in 1..Len(c) |->
                  forEachRing(c[k], pairsBeforePolygon(c, k - 1), exact, throwAt)]]
       [] feature.type = "Polygon" ->
            [feature EXCEPT !.coordinates = forEachRing(c, 0, exact, throwAt)]
       [] OTHER -> feature

\* number of pairs the traversal of the geometry visits
pairCount(feature) ==
  CASE feature.type = "Point" -> 1
    [] feature.type = "MultiPolygon" ->
         pairsBeforePolygon(feature.coordinates, Len(feature.coordinates))
    [] feature.type = "Polygon" ->
         pairsBefore(feature.coordinates, Len(feature.coordinates))
    [] OTHER -> 0

\* approximateTransform(feature)
approximateTransform(feature) == transformGeometry(feature, FALSE, 0)

\* transformFeatureGeometry(feature) when the throwAt-th call of proj4 throws
\* (0: none does): the feature as left behind, whether the catch block logged
\* an error, whether an exception left the method
transformFeatureGeometry(feature, throwAt) ==
  [feature |-> transformGeometry(feature, TRUE, throwAt),
   logged |-> throwAt # 0 /\ throwAt <= pairCount(feature),
   thrown |-> FALSE]

\* the body of transformed.features.forEach in transformSharawaniCoordinates
normalizeFeature(feature, proj4Available, throwAt) ==
  LET needsTransformation == needsCoordinateTransformation(feature)
      failed == [feature |-> feature, logged |-> FALSE, thrown |-> TRUE]
  IN IF needsTransformation.thrown THEN failed
     ELSE IF ~needsTransformation.value
       THEN (IF feature.hasProperties
               THEN [feature |-> feature, logged |-> FALSE, thrown |-> FALSE]
               ELSE failed)
     ELSE IF ~proj4Available
       THEN [feature |-> approximateTransform(feature), logged |-> FALSE, thrown |-> FALSE]
     ELSE transformFeatureGeometry(feature, throwAt)

(***************************************************************************)
(* The normalizer called on one feature.  Points take their pair from the  *)
(* classification boundary, its neighbours and a grid over UTM zone 38N    *)
(* between the latitudes of Iraq; rings have up to MaxRing pairs, Polygons *)
(* one or two rings, MultiPolygons one or two polygons.  throwAt says      *)
(* which call of proj4 throws, 0 for none.                                 *)
(***************************************************************************)
MaxRing == 2

RegionEasting == {166000, 500000, 834000}
RegionNorthing == {3210000, 3905000, 4150000}
RegionPairs == {Pair(x, y) : x \in RegionEasting, y \in RegionNorthing}

PointPairs ==
  {Pair(44, 33), Pair(180, 90), Pair(181, 33), Pair(44, 91), Pair(-200, 33)} \cup RegionPairs
RingPairs == {Pair(44, 33), Pair(180, 90), Pair(500000, 3905000)}
MultiPairs == {Pair(44, 33), Pair(500000, 3905000)}

SeqsUpTo(S, n) == UNION {[1..k -> S] : k \in 1..n}

ThrowPositions == {0, 1, 2}

InitNormalize ==
  /\ Idle
  /\ result = <<>>
  /\ \E proj4Available \in BOOLEAN, throwAt \in ThrowPositions :
       \/ \E c \in PointPairs :
            args = [feature |-> Feature("Point", <<c>>),
                    proj4Available |-> proj4Available, throwAt |-> throwAt]
       \/ \E rings \in SeqsUpTo(SeqsUpTo(RingPairs, MaxRing), 2) :
            args = [feature |-> Feature("Polygon", rings),
                    proj4Available |-> proj4Available, throwAt |-> throwAt]
       \/ \E polygon \in SeqsUpTo(SeqsUpTo(MultiPairs, MaxRing), 2) :
            \/ args = [feature |-> Feature("MultiPolygon", <<polygon>>),
                       proj4Available |-> proj4Available, throwAt |-> throwAt]
            \/ \E ring \in SeqsUpTo(MultiPairs, MaxRing) :
                 args = [feature |-> Feature("MultiPolygon", <<polygon, <<ring>>>>),
                         proj4Available |-> proj4Available, throwAt |-> throwAt]
       \/ \E line \in SeqsUpTo(RingPairs, MaxRing) :
            args = [feature |-> Feature("LineString", line),
                    proj4Available |-> proj4Available, throwAt |-> throwAt]

CallNormalize ==
  /\ result = <<>>
  /\ result' = <<normalizeFeature(args.feature, args.proj4Available, args.throwAt)>>
  /\ UNCHANGED <<args, pageVars, dataVars>>

NextNormalize == CallNormalize

SpecNormalize == InitNormalize /\ [][NextNormalize]_vars

RECURSIVE Concat(_)
Concat(seqs) == IF seqs = <<>> THEN <<>> ELSE Head(seqs) \o Concat(Tail(seqs))

\* the coordinate pairs of a feature in the order they are stored
Flat(feature) ==
  CASE feature.type = "Polygon" -> Concat(feature.coordinates)
    [] feature.type = "MultiPolygon" ->
         Concat([k \in 1..Len(feature.coordinates) |-> Concat(feature.coordinates[k])])
    [] OTHER -> feature.coordinates

Supported == {"Point", "Polygon", "MultiPolygon"}

\* pair c classifies as geographic
Geographic(c) == Le(c.x, 180) /\ Le(c.y, 90)

\* pair out is the pair in of whole numbers after exactly one transform, the
\* exact one when proj4 is available and else
\* lon = (x - 500000 + 45 * 111320) / 111320, lat = y / 110540
TransformedOnce(in, out) ==
  /\ out.times = 1
  /\ IF args.proj4Available
       THEN out.via = "proj4" /\ out.x = in.x /\ out.y = in.y
       ELSE /\ out.via = "approx"
            /\ out.x = <<in.x[1] - 500000 + 45 * 111320, 111320>>
            /\ out.y = <<in.y[1], 110540>>

\* the call has returned and no call of proj4 threw in it
ReturnedClean == result # <<>> /\ ~result[1].thrown /\ ~result[1].logged

\* the feature handed to the normalizer and the feature it left behind
In == Flat(args.feature)
Out == Flat(result[1].feature)

\* every pair of the feature classifies like its first pair
Uniform == \A i \in 1..Len(In) : Geographic(In[i]) = Geographic(In[1])

C17_ApproximationInRange ==
  (result # <<>> /\ ~args.proj4Available /\ args.feature.type = "Point"
     /\ In[1] \in RegionPairs) =>
    /\ Out[1].via = "approx"
    /\ Out[1].x = <<In[1].x[1] - 500000 + 45 * 111320, 111320>>
    /\ Out[1].y = <<In[1].y[1], 110540>>
    /\ Ge(Out[1].x, -180) /\ Le(Out[1].x, 180)
    /\ Ge(Out[1].y, -90) /\ Le(Out[1].y, 90)
    /\ In[1] = Pair(500000, 3905000) =>
         /\ Ge(Out[1].x, 40) /\ Le(Out[1].x, 50)
         /\ Ge(Out[1].y, 30) /\ Le(Out[1].y, 40)

\* the Point [500000, 3905000] has gone through the approximation
C17_Witness ==
  /\ result # <<>>
  /\ ~args.proj4Available
  /\ args.feature = Feature("Point", <<Pair(500000, 3905000)>>)
  /\ result[1].feature.coordinates[1].via = "approx"

\* C18: when a call of proj4 throws while a feature is transformed, every
\* coordinate of the feature is as before the call, the error is logged and
\* no exception leaves transformFeatureGeometry.
C18_ThrowLeavesFeatureUnchanged ==
  (result # <<>> /\ result[1].logged) =>
    /\ result[1].feature = args.feature
    /\ ~result[1].thrown

(***************************************************************************)
(* transformSharawaniCoordinates called by loadSharawaniLayer on a feature *)
(* collection that may hold malformed features.  forEach stops at the      *)
(* first exception, which leaves the method and lands in the catch block   *)
(* of loadSharawaniLayer: then no feature of the collection is rendered.   *)
(***************************************************************************)
MaxCollection == 2

NoGeometry ==
  [hasGeometry |-> FALSE, type |-> "", hasCoordinates |-> FALSE,
   coordinates |-> <<>>, hasProperties |-> TRUE]

WellFormed ==
  {Feature("Point", <<Pair(44, 33)>>), Feature("Point", <<Pair(500000, 3905000)>>)}

Malformed ==
  { NoGeometry,
    [Feature("Point", <<>>) EXCEPT !.hasCoordinates = FALSE],
    Feature("Point", <<>>),
    Feature("Polygon", <<>>),
    [Feature("Point", <<Pair(44, 33)>>) EXCEPT !.hasProperties = FALSE],
    [Feature("Point", <<Pair(500000, 3905000)>>) EXCEPT !.hasProperties = FALSE] }

\* transformSharawaniCoordinates(geojson): the features it returns, or thrown
transformSharawaniCoordinates(features, proj4Available) ==
  LET each == [i \in 1..Len(features) |-> normalizeFeature(features[i], proj4Available, 0)]
      thrown == \E i \in 1..Len(features) : each[i].thrown
  IN [thrown |-> thrown,
      features |-> IF thrown THEN <<>> ELSE [i \in 1..Len(features) |-> each[i].feature]]

\* the try block of loadSharawaniLayer from the normalizer on: the exception
\* the normalizer threw to it, the features handed to the loader
loadSharawaniData(features, proj4Available) ==
  LET transformedGeoJSON == transformSharawaniCoordinates(features, proj4Available)
  IN [thrown |-> transformedGeoJSON.thrown,
      rendered |-> IF transformedGeoJSON.thrown THEN <<>> ELSE transformedGeoJSON.features,
      error |-> transformedGeoJSON.thrown]

InitCollection ==
  /\ Idle
  /\ result = <<>>
  /\ args \in [features : SeqsUpTo(WellFormed \cup Malformed, MaxCollection),
                proj4Available : BOOLEAN]

CallLoadSharawaniData ==
  /\ result = <<>>
  /\ result' = <<loadSharawaniData(args.features, args.proj4Available)>>
  /\ UNCHANGED <<args, pageVars, dataVars>>

NextCollection == CallLoadSharawaniData

SpecCollection == InitCollection /\ [][NextCollection]_vars

\* C19: whatever malformed features the collection holds, the normalizer
\* throws nothing to loadSharawaniLayer, and every feature of the collection
\* goes on to be rendered, the well-formed ones normalized.
C19_MalformedRecoveredLocally ==
  result # <<>> =>
    /\ ~result[1].thrown
    /\ Len(result[1].rendered) = Len(args.features)
    /\ \A i \in 1..Len(args.features) :
         args.features[i] \in WellFormed =>
           result[1].rendered[i] =
             normalizeFeature(args.features[i], args.proj4Available, 0).feature

\* C20: when the fetch of a loadLayer or loadSharawaniLayer call fails, an
\* error message is shown, no layer object is created, nothing is attached
\* or detached, no registry and no toggle changes, for the failed dataset
\* and for all others; and if the dataset had not been loaded, a load of it
\* after the failure issues a new request.
C20_FetchFailureIsolated ==
  [][ \A d \in Datasets :
        FetchSettled(d, FALSE) =>
          /\ infoPanel' = "error"
          /\ groups' = groups
          /\ onMap' = onMap
          /\ loadedLayers' = loadedLayers
          /\ layerGroups' = layerGroups
          /\ sharawaniLayers' = sharawaniLayers
          /\ combinedLayers' = combinedLayers
          /\ villagesLayers' = villagesLayers
          /\ iqAirLayers' = iqAirLayers
          /\ checked' = checked
          /\ timers' = timers
          /\ (registryGet(Cur, d) = 0 /\ d \notin loadedLayers) =>
               load(CurNext, d).fetchCount[d] = fetchCount'[d] + 1 ]_vars

\* the first fetch of Healthcare has failed and left nothing, another layer
\* is on the map, and the toggle was turned on again: a second request is out
C20_Witness ==
  /\ fetchCount["Healthcare"] = 2
  /\ fetching["Healthcare"] = 1
  /\ checked["Healthcare"]
  /\ sharawaniLayers["Healthcare"] = 0
  /\ \A g \in 1..Len(groups) : groups[g].ds # "Healthcare"
  /\ infoPanel = "error"
  /\ onMap # {}

(***************************************************************************)
(* The page from its start: init() awaits the list fetch of its first      *)
(* loader, the loading indicator is shown and no control exists yet.  Any  *)
(* set of containers may be missing from the document and every list fetch *)
(* may settle in any of the three ways.  The user can use the controls of  *)
(* a category as soon as its loader has built them, also while init is     *)
(* still awaiting a later loader.                                          *)
(***************************************************************************)
MaxInitCommands == 1

InitStart ==
  /\ combinedData = MkCombined(1, 1)
  /\ villagesData = 1
  /\ iqAirData = batchSizeIqAir + 1
  /\ sharawaniData = [d \in SharawaniFiles |->
                        IF d = "Healthcare" THEN MkFeatures(1, 0)
                                            ELSE MkFeatures(0, 1)]
  /\ adminData = [d \in AdminLayers |-> 1]
  /\ geojsonFiles \in {<<Adm1>>, <<Adm1, Adm2>>}
  /\ containers \in SUBSET Containers
  /\ checked = [d \in Datasets |-> FALSE]
  /\ loadedLayers = {}
  /\ layerGroups = [d \in AdminLayers |-> 0]
  /\ sharawaniLayers = [d \in SharawaniFiles |-> 0]
  /\ combinedLayers = [d \in CombinedNames |-> 0]
  /\ villagesLayers = [d \in VillagesNames |-> 0]
  /\ iqAirLayers = [d \in IqAirNames |-> 0]
  /\ groups = <<>>
  /\ onMap = {}
  /\ fetching = [d \in Datasets |-> 0]
  /\ timers = {}
  /\ loading = TRUE
  /\ infoPanel = ""
  /\ fetchCount = [d \in Datasets |-> 0]
  /\ loadCalls = [d \in Datasets |-> 0]
  /\ commands = 0
  /\ iconCache = <<>>
  /\ divIcons = <<>>
  /\ iconReturned = <<>>
  /\ popups = <<>>
  /\ clicks = <<>>
  /\ initPc = 1
  /\ initLog = <<>>
  /\ controls = [k \in Kinds \cup {"global"} |-> "none"]
  /\ NoCall

\* the list fetch init is waiting for settles
InitResume(response) ==
  /\ initPc <= Len(initOrder)
  /\ Becomes(initResume(Cur, response))

\* the user changes the toggle of dataset d, once its loader has created it
ToggleChange(d) ==
  /\ controls[kindOf(d)] = "ready"
  /\ d \in Range(orderOf(kindOf(d)))
  /\ commands < MaxInitCommands
  /\ CheckboxChange(d)

\* the user clicks the Load All or the Clear All button of category k
BulkClick(k, on) ==
  /\ controls[k] = "ready"
  /\ commands < MaxInitCommands
  /\ IF on THEN LoadAllClick(k) ELSE ClearAllClick(k)

\* the user clicks loadEverythingBtn once its listener is attached; the
\* listener finds the toggles that exist in the document
EverythingClick ==
  /\ controls["global"] = "ready"
  /\ \A k \in Kinds : controls[k] = "ready"
  /\ commands < MaxInitCommands
  /\ LoadEverythingClick

NextInit ==
  \/ \E response \in Responses : InitResume(response)
  \/ \E d \in Datasets : ToggleChange(d)
  \/ \E k \in Kinds, on \in BOOLEAN : BulkClick(k, on)
  \/ EverythingClick
  \/ \E d \in Datasets, ok \in BOOLEAN : FetchSettled(d, ok)
  \/ \E t \in timers : TimerFired(t)

SpecInit == InitStart /\ [][NextInit]_vars

StepsOf(log) == [i \in 1..Len(log) |-> log[i].step]

\* the steps of a complete run of init, in order
AllSteps ==
  [i \in 1..(Len(initOrder) + 1) |->
     IF i <= Len(initOrder) THEN loaderOf(initOrder[i]) ELSE "setupGlobalControls"]

\* C21: whatever subset of the loaders failed (list fetch rejected, response
\* invalid, container missing), init runs the loaders in order, none skipped:
\* while it awaits loader number i the i - 1 loaders before it have run, and
\* once it has returned all five loaders and setupGlobalControls have run.
C21_InitNeverAborts ==
  /\ initPc <= Len(initOrder) => StepsOf(initLog) = SubSeq(AllSteps, 1, initPc - 1)
  /\ initPc = InitDone => StepsOf(initLog) = AllSteps

\* init has returned after its first three loaders failed in the three ways
C21_Witness ==
  /\ initPc = InitDone
  /\ Len(initLog) = Len(AllSteps)
  /\ \A i \in 1..3 : initLog[i].outcome = "failed"
  /\ initLog[4].outcome = "ok"
  /\ controls["admin"] = "buttons"
  /\ containerOf("sharawani") \notin containers
  /\ containerOf("combined") \in containers /\ controls["combined"] = "none"
  /\ controls["villages"] = "ready"
  /\ controls["global"] = "ready"

\* C22: when init runs the loader of a category whose container is missing
\* from the document, the loader fails in that step, the category gets no
\* button and no toggle, and the error is shown in the info panel.
C22_MissingContainerFatal ==
  [][\A i \in 1..Len(initOrder) :
       (initPc = i /\ initPc' # i /\ containerOf(initOrder[i]) \notin containers) =>
         /\ Len(initLog') >= i
         /\ initLog'[i].step = loaderOf(initOrder[i])
         /\ initLog'[i].outcome = "failed"
         /\ controls'[initOrder[i]] = "none"
         /\ \A d \in Datasets : kindOf(d) = initOrder[i] =>
              ~checked'[d] /\ fetchCount'[d] = 0
         /\ infoPanel' = "error"]_vars

\* init has returned; every list came back good, only the containers of the
\* administrative layers and of the villages were missing
C22_Witness ==
  /\ initPc = InitDone
  /\ containers = Containers \ {"layerControls", "villagesControls"}
  /\ \A i \in 1..Len(initOrder) : initLog[i].response = "ok"
  /\ \A i \in 1..Len(initOrder) :
       initLog[i].outcome = (IF initOrder[i] \in {"admin", "villages"} THEN "failed" ELSE "ok")
  /\ controls["admin"] = "none" /\ controls["villages"] = "none"
  /\ controls["sharawani"] = "ready"
  /\ infoPanel = "error"

(***************************************************************************)
(* Overlapping loads.  From the initial state of the page (the ADM1 load   *)
(* awaiting its fetch) up to MaxCommands further datasets are turned on,   *)
(* each once and none turned off, so their fetches and chunks interleave   *)
(* in every order.  What such a run leaves for a dataset is compared with  *)
(* what the same handlers leave when the dataset is loaded alone on an     *)
(* empty page.                                                             *)
(***************************************************************************)
\* the toggle of a dataset never loaded before is turned on
TurnOn(d) ==
  /\ ~checked[d]
  /\ loadCalls[d] = 0
  /\ CheckboxChange(d)

NextOverlap ==
  \/ \E d \in Toggles : TurnOn(d)
  \/ \E d \in Datasets, ok \in BOOLEAN : FetchSettled(d, ok)
  \/ \E t \in timers : TimerFired(t)

SpecOverlap == Init /\ [][NextOverlap]_vars

\* the page with the same data and nothing loaded
EmptyPage ==
  [Cur EXCEPT !.checked = [d \in Datasets |-> FALSE],
              !.loadedLayers = {},
              !.layerGroups = [d \in AdminLayers |-> 0],
              !.sharawaniLayers = [d \in SharawaniFiles |-> 0],
              !.combinedLayers = [d \in CombinedNames |-> 0],
              !.villagesLayers = [d \in VillagesNames |-> 0],
              !.iqAirLayers = [d \in IqAirNames |-> 0],
              !.groups = <<>>, !.onMap = {}, !.timers = {},
              !.fetching = [d \in Datasets |-> 0],
              !.fetchCount = [d \in Datasets |-> 0],
              !.loadCalls = [d \in Datasets |-> 0],
              !.loading = FALSE, !.infoPanel = "", !.commands = 0,
              !.iconCache = <<>>, !.divIcons = <<>>, !.iconReturned = <<>>,
              !.popups = <<>>, !.clicks = <<>>]

\* every pending timer of s fires, until none is left
RECURSIVE runTimers(_)
runTimers(s) ==
  IF s.timers = {} THEN s
  ELSE LET t == CHOOSE t \in s.timers : TRUE
           s1 == processBatch([s EXCEPT !.timers = @ \ {t}], t.grp, t.start)
       IN IF s1.groups # <<>> THEN runTimers(s1) ELSE s1

\* dataset d turned on alone and loaded to the end, its fetch settling as ok says
loadAlone(d, ok) ==
  LET s1 == checkboxChange(EmptyPage, d)
      s2 == IF s1.fetching[d] = 0 THEN s1
            ELSE IF kindOf(d) = "admin" THEN loadLayerFetched(s1, d, ok)
            ELSE loadSharawaniFetched(s1, d, ok)
  IN runTimers(s2)

\* a layer object without its identity
Content(s, g) == [type |-> s.groups[g].type, layers |-> s.groups[g].layers]

\* what state s holds for dataset d: the group its registry records, the
\* layers of d attached to the map, and the layers of d that exist
outcomeOf(s, d) ==
  [entry |-> IF registryGet(s, d) = 0 THEN <<>> ELSE <<Content(s, registryGet(s, d))>>,
   attached |-> {Content(s, g) : g \in {h \in s.onMap : s.groups[h].ds = d}},
   layers |-> {Content(s, g) : g \in {h \in 1..Len(s.groups) : s.groups[h].ds = d}}]

\* no fetch and no chunk of dataset d is outstanding
Quiescent(d) ==
  /\ fetching[d] = 0
  /\ \A t \in timers : groups[t.grp].ds # d

\* C23: once a dataset that was turned on has no fetch and no chunk
\* outstanding, its registry entry, its markers and its layers on the map are
\* those of loading it alone (with the fetch settling the same way), whatever
\* other datasets were loading at the same time and in whatever order their
\* fetch completions and chunks ran.
C23_OverlapIndependent ==
  \A d \in Datasets :
    (checked[d] /\ Quiescent(d)) =>
      \E ok \in BOOLEAN : outcomeOf(Cur, d) = outcomeOf(loadAlone(d, ok), d)

\* HERA (two chunks), Healthcare (fetch, two chunks, a polygon layer) and ADM1
\* are all loaded, and the ADM1 layer, whose fetch was in flight from the
\* start, was created after the groups of the other two
C23_Witness ==
  /\ timers = {}
  /\ \A d \in Datasets : fetching[d] = 0
  /\ checked["HERA"] /\ checked["Healthcare"] /\ checked[Adm1]
  /\ combinedLayers["HERA"] # 0 /\ sharawaniLayers["Healthcare"] # 0
  /\ layerGroups[Adm1] > combinedLayers["HERA"]
  /\ layerGroups[Adm1] > sharawaniLayers["Healthcare"]
  /\ Len(groups[combinedLayers["HERA"]].chunks) = 2
  /\ Len(groups[sharawaniLayers["Healthcare"]].chunks) = 2

(***************************************************************************)
(* The cluster glyphs.  A glyph is the L.divIcon a cluster group's         *)
(* iconCreateFunction returns for a cluster of count members: the size     *)
(* class of its CSS class, its diameter in pixels (width, height and       *)
(* iconSize), the text of its count line and its background color.         *)
(***************************************************************************)
\* the divIcon of the four creators
glyph(sizeClass, iconSize, count, color) ==
  [sizeClass |-> sizeClass, iconSize |-> iconSize,
   text |-> ToString(count), background |-> color]

createDatasetClusterIcon(count, datasetName, color) ==
  IF count > 100 THEN glyph("large", 65, count, color)
  ELSE IF count > 10 THEN glyph("medium", 55, count, color)
  ELSE glyph("small", 45, count, color)

\* Sharawani clusters drawn with the tiers of the general datasets
createSharawaniClusterIconGeneral(count, layerName, color) ==
  createDatasetClusterIcon(count, layerName, color)

createSharawaniClusterIcon(count, layerName, color) ==
  IF count > 50 THEN glyph("large", 60, count, color)
  ELSE IF count > 10 THEN glyph("medium", 50, count, color)
  ELSE glyph("small", 40, count, color)

createVillagesClusterIcon(count, datasetName, color) ==
  IF count > 100 THEN glyph("large", 65, count, color)
  ELSE IF count > 10 THEN glyph("medium", 55, count, color)
  ELSE glyph("small", 45, count, color)

createIqAirClusterIcon(count, datasetName, color) ==
  IF count > 50 THEN glyph("large", 65, count, color)
  ELSE IF count > 10 THEN glyph("medium", 55, count, color)
  ELSE glyph("small", 45, count, color)

\* iconCreateFunction: (cluster) => ... of the cluster group of dataset d,
\* for a cluster whose getChildCount() is count
iconCreateFunction(d, count) ==
  CASE kindOf(d) = "combined" -> createDatasetClusterIcon(count, d, colorOf(d))
    [] kindOf(d) = "sharawani" -> createSharawaniClusterIcon(count, d, colorOf(d))
    [] kindOf(d) = "villages" -> createVillagesClusterIcon(count, d, colorOf(d))
    [] OTHER -> createIqAirClusterIcon(count, d, colorOf(d))

MaxClusterCount == 120

ClusterDatasets == {"HERA", "Compost", "Healthcare", "Suburbs", "Villages", IqAirKey}

InitGlyph ==
  /\ Idle
  /\ args \in [dataset : ClusterDatasets, count : 1..MaxClusterCount]
  /\ result = <<>>

CallIconCreateFunction ==
  /\ result = <<>>
  /\ result' = <<iconCreateFunction(args.dataset, args.count)>>
  /\ UNCHANGED <<args, pageVars, dataVars>>

NextGlyph == CallIconCreateFunction

SpecGlyph == InitGlyph /\ [][NextGlyph]_vars

\* the decimal numeral of n, 1 <= n <= 999
Digit(k) == SubSeq("0123456789", k + 1, k + 1)
Numeral(n) ==
  IF n < 10 THEN Digit(n)
  ELSE IF n < 100 THEN Digit(n \div 10) \o Digit(n % 10)
  ELSE Digit(n \div 100) \o Digit((n \div 10) % 10) \o Digit(n % 10)

C25_DocumentedDiameters ==
  (result # <<>> /\ kindOf(args.dataset) = "combined") =>
    result[1].iconSize = (IF args.count <= 10 THEN 35
                          ELSE IF args.count <= 100 THEN 42 ELSE 50)

\* a cluster group is Unpopulated before its first chunk, Loading while a
\* chunk is still to come, Populated after its last chunk
Phase(g) ==
  IF groups[g].chunks = <<>> THEN "Unpopulated"
  ELSE IF Pending(g) THEN "Loading"
  ELSE "Populated"

\* C26: in every state the cluster group a registry records holds all N
\* markers of its load and every cluster group on the map is Populated with
\* all N markers; a group that is not Populated is neither recorded nor
\* attached; and no step removes a registry entry or takes a group back from
\* Populated or from Loading to an earlier phase.
C26_RegisteredWhenPopulated ==
  /\ [](\A g \in ClusterGroups :
          /\ (g \in onMap \/ registryGet(Cur, groups[g].ds) = g) =>
               /\ Phase(g) = "Populated"
               /\ groups[g].layers = PointsOf(g)
          /\ Phase(g) # "Populated" =>
               /\ g \notin onMap
               /\ \A d \in Datasets : registryGet(Cur, d) # g)
  /\ [][/\ \A d \in Datasets : registryGet(Cur, d) # 0 => registryGet(CurNext, d) # 0
        /\ \A g \in ClusterGroups :
             /\ Phase(g) = "Populated" => Phase(g)' = "Populated"
             /\ Phase(g) = "Loading" => Phase(g)' # "Unpopulated"]_vars

\* HERA is Populated with its 101 markers in two chunks, recorded and on the
\* map, while Healthcare is Loading after its first chunk
C26_Witness ==
  /\ combinedLayers["HERA"] # 0
  /\ combinedLayers["HERA"] \in onMap
  /\ Len(groups[combinedLayers["HERA"]].chunks) = 2
  /\ Len(groups[combinedLayers["HERA"]].layers) = NumHera
  /\ \E g \in ClusterGroups :
       /\ groups[g].ds = "Healthcare"
       /\ Phase(g) = "Loading"
       /\ Len(groups[g].layers) = batchSizeSharawani
       /\ g \notin onMap
       /\ sharawaniLayers["Healthcare"] = 0

\* the toggles whose checked state a step changes
Flipped == {d \in Datasets : checked'[d] # checked[d]}

\* C27: a step changes the checked state of a toggle only if it is a user
\* command: a checkbox change flips its own toggle and no other, a Load All
\* click only turns on and a Clear All click only turns off toggles of its own
\* category, load everything only turns toggles on; a fetch that completes or
\* fails and a batch chunk change no toggle.
C27_TogglesChangeByCommandOnly ==
  [][/\ Flipped # {} => commands' = commands + 1
     /\ \A d \in Datasets, ok \in BOOLEAN : FetchSettled(d, ok) => Flipped = {}
     /\ \A t \in timers : TimerFired(t) => Flipped = {}
     /\ \A d \in Toggles : CheckboxChange(d) => Flipped = {d}
     /\ \A k \in Kinds :
          LoadAllClick(k) => Flipped = {d \in Range(orderOf(k)) : ~checked[d]}
     /\ \A k \in Kinds :
          ClearAllClick(k) => Flipped = {d \in Range(orderOf(k)) : checked[d]}
     /\ LoadEverythingClick => Flipped = {d \in Toggles : ~checked[d]}]_vars

\* the ADM1 fetch has failed and its toggle is still checked; HERA, turned on
\* by a command, has run both its chunks; Healthcare was turned on and off
\* again and its fetch completed afterwards
C27_Witness ==
  /\ checked[Adm1] /\ fetching[Adm1] = 0 /\ layerGroups[Adm1] = 0
  /\ infoPanel = "error"
  /\ checked["HERA"] /\ combinedLayers["HERA"] # 0
  /\ ~checked["Healthcare"] /\ fetchCount["Healthcare"] = 1
  /\ fetching["Healthcare"] = 0
  /\ \E g \in ClusterGroups : groups[g].ds = "Healthcare"

\* the layers loaded through /api/geojson/<name> and /api/sharawani/<name>
FetchedLayers == AdminLayers \cup SharawaniFiles

\* C28: a request for a layer is issued only in a step that turns the layer's
\* toggle from unchecked to checked, and that step is a user command (its
\* checkbox or a bulk button) or, for an ADM1 file of the list, the step of
\* init that creates the administrative toggles; that step checks and requests
\* exactly the ADM1 files, and no other step of init checks or requests any.
C28_LoadOnDemand ==
  [][/\ \A d \in FetchedLayers :
          fetchCount'[d] # fetchCount[d] =>
            /\ fetchCount'[d] = fetchCount[d] + 1
            /\ ~checked[d] /\ checked'[d]
            /\ \/ commands' = commands + 1
               \/ /\ initPc = 1 /\ initPc' = 2
                  /\ d \in Range(geojsonFiles) /\ adminLevel(d) = "ADM1"
     /\ (initPc = 1 /\ initPc' # 1 /\ controls'["admin"] = "ready") =>
          \A d \in FetchedLayers :
            /\ checked'[d] = (d \in Range(geojsonFiles) /\ adminLevel(d) = "ADM1")
            /\ fetchCount'[d] = (IF checked'[d] THEN 1 ELSE 0)
     /\ (initPc # initPc' /\ ~(initPc = 1 /\ controls'["admin"] = "ready")) =>
          /\ checked' = checked
          /\ fetchCount' = fetchCount]_vars

\* init has returned with all controls built; the ADM2 layer, listed next to
\* ADM1, was requested once, by the one user command, and no Sharawani layer
\* was requested at all
C28_Witness ==
  /\ initPc = InitDone
  /\ \A k \in Kinds : controls[k] = "ready"
  /\ geojsonFiles = <<Adm1, Adm2>>
  /\ fetchCount[Adm1] = 1
  /\ commands = 1 /\ checked[Adm2] /\ fetchCount[Adm2] = 1
  /\ \A d \in SharawaniFiles : ~checked[d] /\ fetchCount[d] = 0

\* C29: the continuation of a loadLayer call whose fetch returned OK with
\* valid GeoJSON records the layer in loadedLayers and layerGroups, attaches
\* it to the map and calls showError not at all: the info panel is as before.
C29_SuccessfulLoadNoError ==
  [][\A d \in AdminLayers :
       FetchSettled(d, TRUE) =>
         /\ d \in loadedLayers'
         /\ layerGroups'[d] # 0
         /\ layerGroups'[d] \in onMap'
         /\ infoPanel' = infoPanel]_vars

\* a load is in progress: init awaits a loader, a layer fetch is in flight or
\* a chunk of a batch load is still to come
LoadInProgress ==
  \/ initPc <= Len(initOrder)
  \/ \E d \in Datasets : fetching[d] > 0
  \/ timers # {}

\* C30: the loading indicator is shown in every state in which a load is in
\* progress.
C30_LoadingShownWhileLoading ==
  LoadInProgress => loading

(***************************************************************************)
(* The batch loads under fair scheduling: the browser runs the callback of *)
(* every setTimeout it was given, so a timer that is pending fires.        *)
(***************************************************************************)
TimerFires == \E t \in timers : TimerFired(t)

SpecBatchFair == SpecBatch /\ WF_vars(TimerFires)

\* the layer objects a run of the batch loads can create: the ADM1 layer, a
\* cluster group and a polygon layer
BatchGroupIds == 1..3

\* the batch load that fills layer object g has run its first chunk
Started(g) == g \in ClusterGroups /\ groups[g].chunks # <<>>

\* that load is done: all N markers are in the group, no timer of it is
\* pending, and the group is on the map and recorded in its registry
Done(g) ==
  /\ g \in ClusterGroups
  /\ Finished(g)
  /\ Len(groups[g].chunks) = (IF Len(PointsOf(g)) = 0 THEN 1
                              ELSE CeilDiv(Len(PointsOf(g)), SizeOf(g)))
  /\ groups[g].layers = PointsOf(g)
  /\ g \in onMap
  /\ registryGet(Cur, groups[g].ds) = g

\* C31: under fair firing of the timers every batch load that has started,
\* for every N from 0 to MaxPoints and for 2458, reaches the end of its input
\* after ceil(N/B) chunks, attaches and records its group, and from then on
\* has no timer pending.
C31_BatchTerminates ==
  \A g \in BatchGroupIds : Started(g) ~> [](Done(g))

\* a load of 250 points, batch size 100, done after its third chunk
C31_Witness ==
  \E g \in ClusterGroups :
    /\ Done(g)
    /\ Len(PointsOf(g)) = 250
    /\ groups[g].chunks = <<100, 100, 50>>

(***************************************************************************)
(* transformSharawaniCoordinates on objects.  The heap holds the objects   *)
(* of a GeoJSON document by kind, each kind's sequence indexed by address: *)
(* the document objects, the feature objects, the geometry objects and the *)
(* coordinate arrays [x, y].  A geometry's coordinates field holds the     *)
(* addresses of its coordinate arrays in the nesting of its type.  The     *)
(* document was produced by response.json(), so it holds plain data only.  *)
(***************************************************************************)
emptyHeap == [documents |-> <<>>, features |-> <<>>, geometries |-> <<>>, pairs |-> <<>>]

\* the addresses base+1, base+2, ... in the nesting of the coordinates
addressesOf(type, coordinates, base) ==
  CASE type = "Polygon" ->
         [r \in 1..Len(coordinates) |->
            [i \in 1..Len(coordinates[r]) |-> base + pairsBefore(coordinates, r - 1) + i]]
    [] type = "MultiPolygon" ->
         [k \in 1..Len(coordinates) |->
            [r \in 1..Len(coordinates[k]) |->
               [i \in 1..Len(coordinates[k][r]) |->
                  base + pairsBeforePolygon(coordinates, k - 1)
                       + pairsBefore(coordinates[k], r - 1) + i]]]
    [] OTHER -> [i \in 1..Len(coordinates) |-> base + i]

\* the coordinate arrays at the addresses of a coordinates field
valuesOf(pairs, type, coordinates) ==
  CASE type = "Polygon" ->
         [r \in 1..Len(coordinates) |->
            [i \in 1..Len(coordinates[r]) |-> pairs[coordinates[r][i]]]]
    [] type = "MultiPolygon" ->
         [k \in 1..Len(coordinates) |->
            [r \in 1..Len(coordinates[k]) |->
               [i \in 1..Len(coordinates[k][r]) |-> pairs[coordinates[k][r][i]]]]]
    [] OTHER -> [i \in 1..Len(coordinates) |-> pairs[coordinates[i]]]

\* the feature object at address f read as a value
featureAt(heap, f) ==
  LET geometry == heap.geometries[heap.features[f].geometry]
  IN [hasGeometry |-> TRUE, type |-> geometry.type,
      hasCoordinates |-> geometry.hasCoordinates,
      coordinates |-> valuesOf(heap.pairs, geometry.type, geometry.coordinates),
      hasProperties |-> heap.features[f].hasProperties]

\* JSON.stringify(geojson): the text of the document at address ref, which
\* holds values and no addresses
JSONstringify(heap, ref) ==
  [i \in 1..Len(heap.documents[ref].features) |->
     featureAt(heap, heap.documents[ref].features[i])]

\* the objects JSON.parse builds for one feature of the text
parseFeature(heap, feature) ==
  [heap EXCEPT
     !.pairs = @ \o Flat(feature),
     !.geometries = Append(@, [type |-> feature.type,
                               hasCoordinates |-> feature.hasCoordinates,
                               coordinates |-> addressesOf(feature.type, feature.coordinates,
                                                           Len(heap.pairs))]),
     !.features = Append(@, [geometry |-> Len(heap.geometries) + 1,
                             hasProperties |-> feature.hasProperties])]

RECURSIVE parseFeatures(_, _, _)
parseFeatures(heap, text, n) ==
  IF n = 0 THEN heap ELSE parseFeature(parseFeatures(heap, text, n - 1), text[n])

\* JSON.parse(text): new objects for everything in the text; the heap after,
\* and the address of the new document
JSONparse(heap, text) ==
  LET built == parseFeatures(heap, text, Len(text))
  IN [heap |-> [built EXCEPT !.documents =
                   Append(@, [features |-> [i \in 1..Len(text) |-> Len(heap.features) + i]])],
      ref |-> Len(heap.documents) + 1]

\* a copy of the document object alone, which shares the feature objects
cloneShallow(heap, geojson) ==
  [heap |-> [heap EXCEPT !.documents = Append(@, heap.documents[geojson])],
   ref |-> Len(heap.documents) + 1]

\* const transformed = JSON.parse(JSON.stringify(geojson))
clone(heap, geojson) == JSONparse(heap, JSONstringify(heap, geojson))

\* what approximateTransform / transformFeatureGeometry leave in the heap for
\* the feature at address f when they turn its value into after: a Point gets
\* a new array (geometry.coordinates = [lon, lat]), the arrays of a Polygon
\* or MultiPolygon are written in place (coord[0] = lon; coord[1] = lat)
store(heap, f, after) ==
  LET g == heap.features[f].geometry
      geometry == heap.geometries[g]
      before == featureAt(heap, f)
      addresses == Flat([type |-> geometry.type, coordinates |-> geometry.coordinates])
      values == Flat(after)
  IN IF after.coordinates = before.coordinates THEN heap
     ELSE IF geometry.type = "Point"
       THEN [heap EXCEPT !.pairs = Append(@, after.coordinates[1]),
                         !.geometries[g].coordinates = <<Len(heap.pairs) + 1>>]
     ELSE [heap EXCEPT !.pairs =
             [a \in 1..Len(heap.pairs) |->
                IF \E j \in 1..Len(addresses) : addresses[j] = a
                  THEN values[CHOOSE j \in 1..Len(addresses) : addresses[j] = a]
                  ELSE heap.pairs[a]]]

\* transformed.features.forEach(...) over the first n features: the heap
\* after, and whether an exception left the loop
RECURSIVE forEachFeature(_, _, _, _, _)
forEachFeature(heap, features, n, proj4Available, throwAt) ==
  IF n = 0 THEN [heap |-> heap, thrown |-> FALSE]
  ELSE LET sofar == forEachFeature(heap, features, n - 1, proj4Available, throwAt)
           done == normalizeFeature(featureAt(sofar.heap, features[n]),
                                    proj4Available, throwAt)
       IN IF sofar.thrown THEN sofar
          ELSE [heap |-> store(sofar.heap, features[n], done.feature),
                thrown |-> done.thrown]

\* transformSharawaniCoordinates(geojson) on the heap: the heap after, the
\* address returned, whether an exception left the method
transformSharawaniCoordinatesOn(heap, geojson, proj4Available, throwAt) ==
  LET transformed == clone(heap, geojson)
      walked == forEachFeature(transformed.heap,
                               transformed.heap.documents[transformed.ref].features,
                               Len(transformed.heap.documents[transformed.ref].features),
                               proj4Available, throwAt)
  IN [heap |-> walked.heap, thrown |-> walked.thrown,
      ref |-> IF walked.thrown THEN 0 ELSE transformed.ref]

(***************************************************************************)
(* The method called on a document of up to MaxDocument features: Points,  *)
(* Polygons and MultiPolygons with geographic and projected coordinates,   *)
(* Points without properties (the skip path throws on them), with and      *)
(* without proj4, and with a call of proj4 that throws.                    *)
(***************************************************************************)
MaxDocument == 2

DocumentPairs == {Pair(44, 33), Pair(500000, 3905000)}

DocumentFeatures ==
  {Feature("Point", <<c>>) : c \in DocumentPairs}
    \cup {[Feature("Point", <<c>>) EXCEPT !.hasProperties = FALSE] : c \in DocumentPairs}
    \cup {Feature("Polygon", <<ring>>) : ring \in SeqsUpTo(DocumentPairs, MaxRing)}
    \cup {Feature("MultiPolygon", <<<<ring>>>>) : ring \in SeqsUpTo(DocumentPairs, MaxRing)}

InitDocument ==
  /\ Idle
  /\ result = <<>>
  /\ \E text \in SeqsUpTo(DocumentFeatures, MaxDocument),
        proj4Available \in BOOLEAN, throwAt \in ThrowPositions :
       LET geojson == JSONparse(emptyHeap, text)
       IN args = [heap |-> geojson.heap, geojson |-> geojson.ref,
                  proj4Available |-> proj4Available, throwAt |-> throwAt]

CallTransformSharawaniCoordinates ==
  /\ result = <<>>
  /\ result' = <<transformSharawaniCoordinatesOn(args.heap, args.geojson,
                                                 args.proj4Available, args.throwAt)>>
  /\ UNCHANGED <<args, pageVars, dataVars>>

NextDocument == CallTransformSharawaniCoordinates

SpecDocument == InitDocument /\ [][NextDocument]_vars

\* the objects of heap before are in heap after, each as it was
ObjectsKept(before, after) ==
  /\ SubSeq(after.documents, 1, Len(before.documents)) = before.documents
  /\ SubSeq(after.features, 1, Len(before.features)) = before.features
  /\ SubSeq(after.geometries, 1, Len(before.geometries)) = before.geometries
  /\ SubSeq(after.pairs, 1, Len(before.pairs)) = before.pairs

\* the document at address ref, its features, geometries and coordinate
\* arrays are all objects that heap before does not hold
Fresh(before, after, ref) ==
  /\ ref > Len(before.documents)
  /\ \A i \in 1..Len(after.documents[ref].features) :
       LET f == after.documents[ref].features[i]
           g == after.features[f].geometry
           geometry == after.geometries[g]
       IN /\ f > Len(before.features)
          /\ g > Len(before.geometries)
          /\ \A a \in Range(Flat([type |-> geometry.type,
                                  coordinates |-> geometry.coordinates])) :
               a > Len(before.pairs)

\* C32: after a call of transformSharawaniCoordinates, returned or thrown,
\* every object of the document it was given is as before the call, the
\* document read back has the coordinates it had, and the document returned
\* is made of new objects only.
C32_InputUntouched ==
  result # <<>> =>
    /\ ObjectsKept(args.heap, result[1].heap)
    /\ JSONstringify(result[1].heap, args.geojson) = JSONstringify(args.heap, args.geojson)
    /\ ~result[1].thrown => Fresh(args.heap, result[1].heap, result[1].ref)

\* a Point and a Polygon of projected coordinates, both transformed in the
\* document returned
C32_Witness ==
  /\ result # <<>>
  /\ ~result[1].thrown
  /\ LET in == JSONstringify(args.heap, args.geojson)
         out == JSONstringify(result[1].heap, result[1].ref)
     IN /\ Len(in) = 2
        /\ in[1].type = "Point" /\ in[2].type = "Polygon"
        /\ out[1].coordinates # in[1].coordinates
        /\ \A i \in 1..Len(in[2].coordinates[1]) :
             out[2].coordinates[1][i] # in[2].coordinates[1][i]

(***************************************************************************)
(* The popup and the information panel of an administrative feature.  The  *)
(* properties of a feature are its name fields; a field that is absent     *)
(* reads as undefined, which is falsy like the empty string "".  A content *)
(* is the title, the value of the Type row and the rows after it.          *)
(***************************************************************************)
\* a || b
Or(a, b) == IF a # "" THEN a ELSE b

\* getAreaType(properties)
getAreaType(properties) ==
  IF properties.ADM3_EN # "" THEN "Sub-district"
  ELSE IF properties.ADM2_EN # "" THEN "District"
  ELSE IF properties.ADM1_EN # "" THEN "Governorate"
  ELSE IF properties.ADM0_EN # "" THEN "Country"
  ELSE "Administrative Area"

\* const name = properties.ADM1_EN || properties.ADM2_EN || properties.ADM3_EN
\*              || properties.ADM0_EN || "Unknown Area"
nameOf(properties) ==
  Or(properties.ADM1_EN, Or(properties.ADM2_EN, Or(properties.ADM3_EN,
     Or(properties.ADM0_EN, "Unknown Area"))))

\* if (value && value !== name) content += row
row(label, value, name) ==
  IF value # "" /\ value # name THEN <<[label |-> label, value |-> value]>> ELSE <<>>

\* the title, type and rows both methods build; they differ in the labels
\* of the Arabic and Kurdish rows
contentOf(properties, arabic, kurdish) ==
  LET name == nameOf(properties)
      ar == Or(properties.ADM1_AR, Or(properties.ADM2_AR, properties.ADM3_AR))
      ku == Or(properties.ADM1_KU, Or(properties.ADM2_KU, properties.ADM3_KU))
  IN [title |-> name,
      type |-> getAreaType(properties),
      rows |-> row("Governorate", properties.ADM1_EN, name)
                 \o row("District", properties.ADM2_EN, name)
                 \o row("Sub-district", properties.ADM3_EN, name)
                 \o (IF ar # "" THEN <<[label |-> arabic, value |-> ar]>> ELSE <<>>)
                 \o (IF ku # "" THEN <<[label |-> kurdish, value |-> ku]>> ELSE <<>>)]

\* createPopupContent(properties)
createPopupContent(properties) == contentOf(properties, "Arabic", "Kurdish")

\* showFeatureInfo(properties): what it writes to infoPanel.innerHTML
showFeatureInfo(properties) == contentOf(properties, "Arabic Name", "Kurdish Name")

(***************************************************************************)
(* Either method called on the properties of one feature: every            *)
(* combination of present English names, a district that may be named like *)
(* its governorate, with and without Arabic and Kurdish names.             *)
(***************************************************************************)
AdminProperties ==
  [ADM0_EN : {"", "Iraq"}, ADM1_EN : {"", "Erbil"}, ADM2_EN : {"", "Koisnjaq", "Erbil"},
   ADM3_EN : {"", "Taq Taq"},
   ADM1_AR : {"", "ar-1"}, ADM2_AR : {"", "ar-2"}, ADM3_AR : {""},
   ADM1_KU : {"", "ku-1"}, ADM2_KU : {""}, ADM3_KU : {""}]

InitInfo ==
  /\ Idle
  /\ result = <<>>
  /\ args \in [properties : AdminProperties, method : {"createPopupContent", "showFeatureInfo"}]

CallCreatePopupContent ==
  /\ result = <<>>
  /\ args.method = "createPopupContent"
  /\ result' = <<createPopupContent(args.properties)>>
  /\ UNCHANGED <<args, pageVars, dataVars>>

CallShowFeatureInfo ==
  /\ result = <<>>
  /\ args.method = "showFeatureInfo"
  /\ result' = <<showFeatureInfo(args.properties)>>
  /\ infoPanel' = "info"
  /\ UNCHANGED <<args, dataVars, checked, loadedLayers, layerGroups, sharawaniLayers,
                 combinedLayers, villagesLayers, iqAirLayers, groups, onMap, fetching,
                 timers, loading, fetchCount, loadCalls, commands, iconCache, divIcons,
                 iconReturned, popups, clicks, initPc, initLog, controls, containers>>

NextInfo ==
  \/ CallCreatePopupContent
  \/ CallShowFeatureInfo

SpecInfo == InitInfo /\ [][NextInfo]_vars

\* C33: the title of the popup and of the information panel is the name at
\* the level of the type shown: ADM3_EN with Sub-district when the feature
\* has an ADM3_EN, else ADM2_EN with District, else ADM1_EN with
\* Governorate, else ADM0_EN with Country.
C33_NameMatchesType ==
  result # <<>> =>
    LET properties == args.properties
        content == result[1]
    IN IF properties.ADM3_EN # ""
         THEN content.title = properties.ADM3_EN /\ content.type = "Sub-district"
       ELSE IF properties.ADM2_EN # ""
         THEN content.title = properties.ADM2_EN /\ content.type = "District"
       ELSE IF properties.ADM1_EN # ""
         THEN content.title = properties.ADM1_EN /\ content.type = "Governorate"
       ELSE properties.ADM0_EN # "" =>
              content.title = properties.ADM0_EN /\ content.type = "Country"

(***************************************************************************)
(* The file endpoints of main.js.  A request path segment is a sequence of *)
(* tokens; Express matches :filename against one raw segment, which holds  *)
(* no "/", and hands the handler the segment after decodeURIComponent.  A  *)
(* file path is the sequence of its directory names and its file name.     *)
(***************************************************************************)
dirname == <<"app">>

\* the files of the server: name |-> whether the file holds JSON
Files ==
  (<<"app", "geojson", "ADM1.geojson">> :> TRUE)
    @@ (<<"app", "datasets", "Sharawani", "Healthcare.geojson">> :> TRUE)
    @@ (<<"app", "datasets", "villages.geojson">> :> TRUE)
    @@ (<<"app", "datasets", "Combined.geojson">> :> TRUE)

Directories ==
  {SubSeq(f, 1, k) : f \in DOMAIN Files, k \in 0..3} \ DOMAIN Files

RouteDirectory ==
  [geojson |-> <<"geojson">>, sharawani |-> <<"datasets", "Sharawani">>]

\* the route pattern /api/.../:filename matches one non-empty segment without "/"
routeMatches(raw) == raw # <<>> /\ \A i \in 1..Len(raw) : raw[i] # "/"

\* decodeURIComponent on the tokens of the segment
decodeURIComponent(raw) ==
  [i \in 1..Len(raw) |-> IF raw[i] = "%2F" THEN "/" ELSE raw[i]]

\* the names between the separators of a path string
RECURSIVE split(_, _)
split(tokens, n) ==
  IF n = 0 THEN <<"">>
  ELSE LET names == split(tokens, n - 1)
       IN IF tokens[n] = "/" THEN Append(names, "")
          ELSE [names EXCEPT ![Len(names)] = @ \o tokens[n]]

\* path normalization: empty names and "." are dropped, ".." removes the
\* name before it
RECURSIVE normalize(_, _)
normalize(names, n) ==
  IF n = 0 THEN <<>>
  ELSE LET path == normalize(names, n - 1)
       IN CASE names[n] = "" \/ names[n] = "." -> path
            [] names[n] = ".." -> IF path = <<>> THEN path ELSE SubSeq(path, 1, Len(path) - 1)
            [] OTHER -> Append(path, names[n])

\* path.join(__dirname, ..., `${filename}.geojson`)
join(directory, filename) ==
  LET names == directory \o split(filename, Len(filename))
  IN normalize(names, Len(names))

\* fs.existsSync(path)
existsSync(path) == path \in DOMAIN Files \/ path \in Directories

\* the handler of GET /api/geojson/:filename and of GET /api/sharawani/:filename
\* for the raw segment: the status of the response, the path read, the file
\* whose content is returned
getFile(route, raw) ==
  LET filename == decodeURIComponent(raw)
      geojsonPath == join(dirname \o RouteDirectory[route], Append(filename, ".geojson"))
  IN IF ~routeMatches(raw)
       THEN [status |-> 404, read |-> {}, returned |-> {}]
     ELSE IF ~existsSync(geojsonPath)
       THEN [status |-> 404, read |-> {}, returned |-> {}]
     ELSE IF geojsonPath \notin DOMAIN Files
       THEN [status |-> 500, read |-> {geojsonPath}, returned |-> {}]
     ELSE IF ~Files[geojsonPath]
       THEN [status |-> 500, read |-> {geojsonPath}, returned |-> {}]
     ELSE [status |-> 200, read |-> {geojsonPath}, returned |-> {geojsonPath}]

(***************************************************************************)
(* One request to a file endpoint, its segment of up to MaxTokens tokens.  *)
(***************************************************************************)
MaxTokens == 5

Tokens == {"..", "/", "%2F", "datasets", "villages", "ADM1"}

InitServe ==
  /\ Idle
  /\ result = <<>>
  /\ args \in [route : {"geojson", "sharawani"}, raw : SeqsUpTo(Tokens, MaxTokens)]

Get ==
  /\ result = <<>>
  /\ result' = <<getFile(args.route, args.raw)>>
  /\ UNCHANGED <<args, pageVars, dataVars>>

NextServe == Get

SpecServe == InitServe /\ [][NextServe]_vars

\* path is a file of the directory of the route
InsideDirectory(route, path) ==
  LET directory == dirname \o RouteDirectory[route]
  IN /\ Len(path) > Len(directory)
     /\ SubSeq(path, 1, Len(directory)) = directory

\* C34: whatever the filename parameter, a file endpoint reads and returns
\* only files inside the directory of its route, and answers 404 when it
\* reads none.
C34_ReadsInsideDirectory ==
  result # <<>> =>
    /\ \A path \in result[1].read : InsideDirectory(args.route, path)
    /\ result[1].read = {} => result[1].status = 404
====
